---- MODULE Spec2Model ----
(***************************************************************************)
(* Cluster media routing core: the per-room channel publisher              *)
(* (RoomChannelPublisher, publisher.rs), the room registry of the cluster  *)
(* engine and the room hash (MediaCluster, ClusterRoomHash, cluster.rs),   *)
(* the gateway's handler of remote RPCs (remote_rpc_handler.rs) and the    *)
(* per-session worker group (MediaWorkerWebrtc, worker.rs).                *)
(***************************************************************************)
EXTENDS Integers, Sequences, FiniteSets, TLC

(***************************************************************************)
(* Bounds of the model.                                                    *)
(***************************************************************************)
\* most outputs left unpopped in the queue when the next input is handled
MaxPending == 1
\* most on_track_publish calls in a run that records the emission history
MaxPublish == 3
\* most outputs left unpopped when the next input is handled, in the runs
\* that exercise on_track_feedback (which pushes one output per source)
MaxPendingFeedback == 0
MaxRoomPending == 0
\* most inputs one room takes in the runs that record its inputs and outputs
MaxRoomInputs == 2
\* the capacity of the connector telemetry channel
TelemetryCapacity == 1
\* most endpoints a worker builds in a run
MaxSpawns == 2

(***************************************************************************)
(* Input domains.                                                          *)
(***************************************************************************)
Endpoints == {1, 2}
RemoteTrackIds == {3, 4}
\* the (endpoint, track) pairs in use: one track id on two endpoints, and two
\* track ids on one endpoint
Handles == {<<1, 3>>, <<2, 3>>, <<2, 4>>}
PeerIds == {"peer1", "peer2"}
TrackNames == {"audio_main"}

\* the room a publisher is constructed for (tests: `let room = 1.into()`)
PublisherRoom == 1

VARIABLES
    tracks,         \* publisher: (endpoint, track) -> (peer, name, channel)
    tracks_source,  \* publisher: channel -> ordered set of (endpoint, track)
    queue,          \* publisher: FIFO of outputs
    panicked,       \* an expect()/assert!() of the publisher failed
    chan_log,       \* history: channel -> the publish / unpublish calls that touched it
    pub_start,      \* history: channel -> number of PubStart pushed
    pub_stop,       \* history: channel -> number of PubStop pushed
    inserted,       \* history: channel -> its live sources, oldest insertion first
    last,           \* history: the operation that produced this state
    rooms_map,      \* cluster: room hash -> index of its room in the task group
    rooms,          \* cluster: the task group of rooms, a slot per index
    shutdown,       \* cluster: shutdown was requested
    cluster_panicked, \* an expect() of the cluster failed
    shutdown_broadcasts, \* history: the calls of rooms.on_shutdown so far
    returned,       \* history: what pop_output returned, if it was the last operation
    branch_is_empty, \* the parent's branch of the cluster: the empty event was emitted
    room_log,       \* history: per room hash, the inputs and outputs of its latest room
    gw_calls,       \* gateway: the calls of the remote RPC handler, per call id
    connector_agent_tx, \* gateway: the connector telemetry channel
    worker_endpoints,   \* worker: the task group of endpoints, a slot per index
    worker_shared_port, \* worker: the demux indexes, ufrag -> index and remote address -> index
    worker_addrs,       \* worker: the bound addresses, (address, slot) in the order of binding
    worker_queue,       \* worker: FIFO of outputs
    worker_shutdown,    \* worker: shutdown was requested
    worker_spawned,     \* history: the number of endpoints built so far
    worker_delivered,   \* history: the input the last operation handed to an endpoint, if any
    worker_built,       \* history: the endpoint the last operation built, if any
    worker_returned,    \* history: what pop_output returned, if it was the last operation
    generated           \* room hashes: (app, room name) -> the hash generate returned for it

pub_vars == <<tracks, tracks_source, queue, panicked>>
hist_vars == <<chan_log, pub_start, pub_stop, inserted>>
cluster_vars == <<rooms_map, rooms, shutdown, cluster_panicked, shutdown_broadcasts, returned,
                  branch_is_empty>>
gateway_vars == <<gw_calls, connector_agent_tx>>
worker_vars == <<worker_endpoints, worker_shared_port, worker_addrs, worker_queue,
                 worker_shutdown, worker_spawned, worker_delivered, worker_built,
                 worker_returned>>
hash_vars == <<generated>>
vars == <<pub_vars, hist_vars, last, cluster_vars, room_log, gateway_vars, worker_vars, hash_vars>>

(***************************************************************************)
(* indexmap::IndexMap / IndexSet, as far as the publisher uses them.  The  *)
(* two maps are only looked up, inserted into and removed from (their      *)
(* order is never iterated), so they are functions; the IndexSet of        *)
(* sources is iterated by on_track_feedback, so it is a sequence with      *)
(* IndexSet's insert and swap_remove.                                      *)
(***************************************************************************)
EmptyMap == [k \in {} |-> {}]

MapInsert(m, k, v) == [x \in (DOMAIN m) \cup {k} |-> IF x = k THEN v ELSE m[x]]

MapRemove(m, k) == [x \in (DOMAIN m) \ {k} |-> m[x]]

SeqToSet(s) == {s[i] : i \in 1..Len(s)}

IndexOf(s, x) == CHOOSE i \in 1..Len(s) : s[i] = x

\* IndexSet::insert: a new value goes last, a present one keeps its place
IndexSetInsert(s, x) == IF x \in SeqToSet(s) THEN s ELSE Append(s, x)

\* IndexSet::swap_remove: the last element takes the removed one's place
IndexSetSwapRemove(s, x) ==
    IF x \notin SeqToSet(s) THEN s
    ELSE LET i == IndexOf(s, x)
             n == Len(s)
         IN [j \in 1..(n - 1) |-> IF j = i THEN s[n] ELSE s[j]]

(***************************************************************************)
(* Channel ids.                                                            *)
(***************************************************************************)
\* id_generator::gen_track_channel_id: H(room || peer || name)
gen_track_channel_id(room, peer, name) == <<room, peer, name>>

Channels == {gen_track_channel_id(PublisherRoom, p, n) : p \in PeerIds, n \in TrackNames}

(***************************************************************************)
(* Feedback (atm0s_sdn pubsub) and FeedbackKind.                           *)
(***************************************************************************)
\* Feedback::simple(kind, value, interval_ms, timeout_ms)
FeedbackSimple(kind, value, interval_ms, timeout_ms) ==
    [kind |-> kind, count |-> 1, max |-> value, min |-> value, sum |-> value,
     interval_ms |-> interval_ms, timeout_ms |-> timeout_ms]

\* a feedback whose min and max fields differ from its value
FeedbackRange(kind, value, min, max) ==
    [kind |-> kind, count |-> 1, max |-> max, min |-> min, sum |-> value,
     interval_ms |-> 100, timeout_ms |-> 200]

FeedbackKinds == {0, 1, 2}

Feedbacks ==
    {FeedbackSimple(k, 1000, 100, 200) : k \in FeedbackKinds}
        \cup {FeedbackRange(0, 1000, 100, 200)}

\* variant: an unknown kind is taken for a key-frame request
FeedbackKind_try_from_lenient(value) ==
    CASE value.kind = 0 -> [ok |-> TRUE, kind |-> "Bitrate", min |-> value.min, max |-> value.max]
      [] OTHER -> [ok |-> TRUE, kind |-> "KeyFrameRequest", min |-> 0, max |-> 0]

\* variant: the bitrate limit is built from the feedback's sum
FeedbackKind_try_from_sum(value) ==
    CASE value.kind = 0 -> [ok |-> TRUE, kind |-> "Bitrate", min |-> value.sum, max |-> value.sum]
      [] value.kind = 1 -> [ok |-> TRUE, kind |-> "KeyFrameRequest", min |-> 0, max |-> 0]
      [] OTHER -> [ok |-> FALSE, kind |-> "Err", min |-> 0, max |-> 0]

\* impl TryFrom<Feedback> for FeedbackKind
FeedbackKind_try_from(value) ==
    CASE value.kind = 0 -> [ok |-> TRUE, kind |-> "Bitrate", min |-> value.min, max |-> value.max]
      [] value.kind = 1 -> [ok |-> TRUE, kind |-> "KeyFrameRequest", min |-> 0, max |-> 0]
      [] OTHER -> [ok |-> FALSE, kind |-> "Err", min |-> 0, max |-> 0]

(***************************************************************************)
(* Media packets.                                                          *)
(***************************************************************************)
\* tests::fake_audio, with two sequence numbers
MediaPackets ==
    {[ts |-> 0, seq |-> s, marker |-> TRUE, nackable |-> FALSE,
      meta |-> "Opus", data |-> <<1, 2, 3, 4>>] : s \in {0, 1}}

Bit(b) == IF b THEN 1 ELSE 0

\* MediaPacket::serialize: a canonical length-prefixed encoding
MediaPacket_serialize(p) ==
    <<p.ts, p.seq, Bit(p.marker), Bit(p.nackable), Len(p.data)>> \o p.data

(***************************************************************************)
(* Outputs.                                                                *)
(***************************************************************************)
PubStart == [ctl |-> "PubStart", data |-> <<>>]
PubStop == [ctl |-> "PubStop", data |-> <<>>]
PubData(bytes) == [ctl |-> "PubData", data |-> bytes]

\* Output::Pubsub(pubsub::Control(channel, control))
OutPubsub(channel, control) == [out |-> "Pubsub", channel |-> channel, control |-> control]

LimitBitrate(min, max) == [ev |-> "LimitBitrate", min |-> min, max |-> max]
RequestKeyFrame == [ev |-> "RequestKeyFrame", min |-> 0, max |-> 0]

\* Output::Endpoint(vec![endpoint], ClusterEndpointEvent::RemoteTrack(track, event))
OutEndpoint(endpoints, track, event) ==
    [out |-> "Endpoint", endpoints |-> endpoints, track |-> track, event |-> event]

(***************************************************************************)
(* RoomChannelPublisher.  Each handler is a function from the publisher's  *)
(* fields to its fields after the call.                                    *)
(***************************************************************************)
Publisher(tr, ts, q, pk) == [tracks |-> tr, tracks_source |-> ts, queue |-> q, panicked |-> pk]

\* RoomChannelPublisher::new
Publisher_new == Publisher(EmptyMap, EmptyMap, <<>>, FALSE)

\* the events on_track_feedback pushes for the sources of a channel
RECURSIVE FeedbackOutputs(_, _)
FeedbackOutputs(sources, fb) ==
    IF sources = <<>> THEN <<>>
    ELSE LET endpoint == Head(sources)[1]
             track_id == Head(sources)[2]
             event == IF fb.kind = "Bitrate" THEN LimitBitrate(fb.min, fb.max)
                      ELSE RequestKeyFrame
         IN <<OutEndpoint(<<endpoint>>, track_id, event)>> \o FeedbackOutputs(Tail(sources), fb)

\* variant: only the first source of the channel is notified
on_track_feedback_first_source(p, channel, feedback) ==
    LET fb == FeedbackKind_try_from(feedback)
    IN IF ~fb.ok THEN p
       ELSE IF channel \notin DOMAIN p.tracks_source THEN p
       ELSE [p EXCEPT !.queue = p.queue \o
                FeedbackOutputs(SubSeq(p.tracks_source[channel], 1, 1), fb)]

on_track_feedback(p, channel, feedback) ==
    LET fb == FeedbackKind_try_from(feedback)
    IN IF ~fb.ok THEN p
       ELSE IF channel \notin DOMAIN p.tracks_source THEN p
       ELSE [p EXCEPT !.queue = p.queue \o FeedbackOutputs(p.tracks_source[channel], fb)]

\* variant: PubStart is pushed on every publish
on_track_publish_always_start(p, endpoint, track, peer, name) ==
    LET channel_id == gen_track_channel_id(PublisherRoom, peer, name)
        sources == IF channel_id \in DOMAIN p.tracks_source
                   THEN p.tracks_source[channel_id] ELSE <<>>
    IN [p EXCEPT !.tracks = MapInsert(p.tracks, <<endpoint, track>>, <<peer, name, channel_id>>),
                 !.tracks_source = MapInsert(p.tracks_source, channel_id,
                                             IndexSetInsert(sources, <<endpoint, track>>)),
                 !.queue = Append(p.queue, OutPubsub(channel_id, PubStart))]

\* variant: a handle that is already registered is not added to the source
\* set of its new channel
on_track_publish_keep_sources(p, endpoint, track, peer, name) ==
    IF <<endpoint, track>> \in DOMAIN p.tracks
    THEN [p EXCEPT !.tracks = MapInsert(@, <<endpoint, track>>,
                                 <<peer, name, gen_track_channel_id(PublisherRoom, peer, name)>>)]
    ELSE LET channel_id == gen_track_channel_id(PublisherRoom, peer, name)
             sources == IF channel_id \in DOMAIN p.tracks_source
                        THEN p.tracks_source[channel_id] ELSE <<>>
         IN [p EXCEPT !.tracks = MapInsert(@, <<endpoint, track>>, <<peer, name, channel_id>>),
                      !.tracks_source = MapInsert(@, channel_id,
                                            IndexSetInsert(sources, <<endpoint, track>>)),
                      !.queue = IF sources = <<>>
                                THEN Append(@, OutPubsub(channel_id, PubStart)) ELSE @]

on_track_publish(p, endpoint, track, peer, name) ==
    LET channel_id == gen_track_channel_id(PublisherRoom, peer, name)
        tracks1 == MapInsert(p.tracks, <<endpoint, track>>, <<peer, name, channel_id>>)
        sources == IF channel_id \in DOMAIN p.tracks_source
                   THEN p.tracks_source[channel_id] ELSE <<>>
        queue1 == IF sources = <<>>
                  THEN Append(p.queue, OutPubsub(channel_id, PubStart))
                  ELSE p.queue
        sources1 == IndexSetInsert(sources, <<endpoint, track>>)
    IN [p EXCEPT !.tracks = tracks1,
                 !.tracks_source = MapInsert(p.tracks_source, channel_id, sources1),
                 !.queue = queue1]

\* variant: the packet is queued ahead of the pending outputs
on_track_data_push_front(p, endpoint, track, media) ==
    IF <<endpoint, track>> \notin DOMAIN p.tracks THEN p
    ELSE LET channel_id == p.tracks[<<endpoint, track>>][3]
             data == MediaPacket_serialize(media)
         IN [p EXCEPT !.queue = <<OutPubsub(channel_id, PubData(data))>> \o p.queue]

\* variant: a missing track is unwrapped instead of dropped
on_track_data_unwrap(p, endpoint, track, media) ==
    IF <<endpoint, track>> \notin DOMAIN p.tracks THEN [p EXCEPT !.panicked = TRUE]
    ELSE LET channel_id == p.tracks[<<endpoint, track>>][3]
             data == MediaPacket_serialize(media)
         IN [p EXCEPT !.queue = Append(p.queue, OutPubsub(channel_id, PubData(data)))]

on_track_data(p, endpoint, track, media) ==
    IF <<endpoint, track>> \notin DOMAIN p.tracks THEN p
    ELSE LET channel_id == p.tracks[<<endpoint, track>>][3]
             data == MediaPacket_serialize(media)
         IN [p EXCEPT !.queue = Append(p.queue, OutPubsub(channel_id, PubData(data)))]

\* variant: PubStop is pushed on every unpublish
on_track_unpublish_always_stop(p, endpoint, track) ==
    IF <<endpoint, track>> \notin DOMAIN p.tracks THEN p
    ELSE LET channel_id == p.tracks[<<endpoint, track>>][3]
             sources == IF channel_id \in DOMAIN p.tracks_source
                        THEN p.tracks_source[channel_id] ELSE <<>>
             sources1 == IndexSetSwapRemove(sources, <<endpoint, track>>)
         IN [p EXCEPT !.tracks = MapRemove(p.tracks, <<endpoint, track>>),
                      !.tracks_source = IF sources1 = <<>>
                                        THEN MapRemove(p.tracks_source, channel_id)
                                        ELSE MapInsert(p.tracks_source, channel_id, sources1),
                      !.queue = Append(p.queue, OutPubsub(channel_id, PubStop))]

\* variant: the handle is expected to be registered
on_track_unpublish_expect_registered(p, endpoint, track) ==
    IF <<endpoint, track>> \notin DOMAIN p.tracks THEN [p EXCEPT !.panicked = TRUE]
    ELSE LET channel_id == p.tracks[<<endpoint, track>>][3]
             tracks1 == MapRemove(p.tracks, <<endpoint, track>>)
         IN IF channel_id \notin DOMAIN p.tracks_source
               \/ <<endpoint, track>> \notin SeqToSet(p.tracks_source[channel_id])
            THEN [p EXCEPT !.tracks = tracks1, !.panicked = TRUE]
            ELSE LET sources1 == IndexSetSwapRemove(p.tracks_source[channel_id], <<endpoint, track>>)
                 IN IF sources1 = <<>>
                    THEN [p EXCEPT !.tracks = tracks1,
                                   !.tracks_source = MapRemove(p.tracks_source, channel_id),
                                   !.queue = Append(p.queue, OutPubsub(channel_id, PubStop))]
                    ELSE [p EXCEPT !.tracks = tracks1,
                                   !.tracks_source = MapInsert(p.tracks_source, channel_id, sources1)]

on_track_unpublish(p, endpoint, track) ==
    IF <<endpoint, track>> \notin DOMAIN p.tracks THEN p
    ELSE LET channel_id == p.tracks[<<endpoint, track>>][3]
             tracks1 == MapRemove(p.tracks, <<endpoint, track>>)
         IN IF channel_id \notin DOMAIN p.tracks_source
            THEN \* expect("Should have track_source")
                 [p EXCEPT !.tracks = tracks1, !.panicked = TRUE]
            ELSE LET sources == p.tracks_source[channel_id]
                     removed == <<endpoint, track>> \in SeqToSet(sources)
                     sources1 == IndexSetSwapRemove(sources, <<endpoint, track>>)
                 IN IF ~removed
                    THEN \* assert!(removed, "Should remove source child on unpublish")
                         [p EXCEPT !.tracks = tracks1, !.panicked = TRUE]
                    ELSE IF sources1 = <<>>
                    THEN [p EXCEPT !.tracks = tracks1,
                                   !.tracks_source = MapRemove(p.tracks_source, channel_id),
                                   !.queue = Append(p.queue, OutPubsub(channel_id, PubStop))]
                    ELSE [p EXCEPT !.tracks = tracks1,
                                   !.tracks_source = MapInsert(p.tracks_source, channel_id, sources1)]

\* TaskSwitcherChild::is_empty
is_empty(p) == p.tracks = EmptyMap /\ p.tracks_source = EmptyMap /\ p.queue = <<>>

\* TaskSwitcherChild::pop_output: queue.pop_front()
pop_output(p) == IF p.queue = <<>> THEN p ELSE [p EXCEPT !.queue = Tail(p.queue)]

\* the three assertions of Drop
DropAssertions(p) ==
    /\ Len(p.queue) = 0
    /\ Cardinality(DOMAIN p.tracks) = 0
    /\ Cardinality(DOMAIN p.tracks_source) = 0

(***************************************************************************)
(* The publisher as a state machine.                                       *)
(***************************************************************************)
Self == Publisher(tracks, tracks_source, queue, panicked)

\* the sources registered on a channel, in IndexSet order
Sources(channel) ==
    IF channel \in DOMAIN tracks_source THEN tracks_source[channel] ELSE <<>>

\* the operation that ran last, and whether it found what it looked up
Last(op, hit) == [op |-> op, hit |-> hit]

SetPublisher(p) ==
    /\ tracks' = p.tracks
    /\ tracks_source' = p.tracks_source
    /\ queue' = p.queue
    /\ panicked' = p.panicked
    /\ UNCHANGED <<cluster_vars, room_log, gateway_vars, worker_vars, hash_vars>>

PublisherInit ==
    /\ tracks = Publisher_new.tracks
    /\ tracks_source = Publisher_new.tracks_source
    /\ queue = Publisher_new.queue
    /\ panicked = Publisher_new.panicked
    /\ chan_log = [c \in Channels |-> <<>>]
    /\ pub_start = [c \in Channels |-> 0]
    /\ pub_stop = [c \in Channels |-> 0]
    /\ inserted = [c \in Channels |-> <<>>]
    /\ last = Last("new", FALSE)


\* an input is handled once the outputs of earlier ones are (nearly) drained
Ready == ~panicked /\ Len(queue) <= MaxPending

Drained == Len(queue) <= MaxPendingFeedback

OnTrackPublish(endpoint, track, peer, name) ==
    /\ Ready
    /\ SetPublisher(on_track_publish(Self, endpoint, track, peer, name))
    /\ last' = Last("publish", <<endpoint, track>> \in DOMAIN tracks)

OnTrackUnpublish(endpoint, track) ==
    /\ Ready
    /\ SetPublisher(on_track_unpublish(Self, endpoint, track))
    /\ last' = Last("unpublish", <<endpoint, track>> \in DOMAIN tracks)

OnTrackData(endpoint, track, media) ==
    /\ Ready
    /\ SetPublisher(on_track_data(Self, endpoint, track, media))
    /\ last' = Last("data", <<endpoint, track>> \in DOMAIN tracks)

OnTrackFeedback(channel, feedback) ==
    /\ Ready
    /\ SetPublisher(on_track_feedback(Self, channel, feedback))
    /\ last' = Last("feedback", FeedbackKind_try_from(feedback).ok)

PopOutput ==
    /\ ~panicked
    /\ queue # <<>>
    /\ SetPublisher(pop_output(Self))
    /\ last' = Last("pop", TRUE)

(***************************************************************************)
(* History of a run, kept beside the publisher.                            *)
(*   chan_log[c]  the publish calls naming channel c and the unpublish     *)
(*                calls that removed a source of c, in call order          *)
(*   pub_start[c], pub_stop[c]  the PubStart / PubStop pushed for c        *)
(*   inserted[c]  the sources of c, by the time they entered its set       *)
(***************************************************************************)
HistUnchanged == UNCHANGED hist_vars

\* the number of outputs with this control among those a call pushed
Pushed(before, after, channel, control) ==
    Cardinality({i \in (Len(before) + 1)..Len(after) :
                    after[i] = OutPubsub(channel, control)})

SelectSeq2(s, x) == SelectSeq(s, LAMBDA y : y # x)

RecordControls ==
    /\ pub_start' = [c \in Channels |-> pub_start[c] + Pushed(queue, queue', c, PubStart)]
    /\ pub_stop' = [c \in Channels |-> pub_stop[c] + Pushed(queue, queue', c, PubStop)]

RecordPublish(endpoint, track, peer, name) ==
    LET c == gen_track_channel_id(PublisherRoom, peer, name)
    IN /\ Cardinality({x \in Channels \X (1..(2 * MaxPublish)) :
                          /\ x[2] <= Len(chan_log[x[1]])
                          /\ chan_log[x[1]][x[2]][1] = "publish"}) < MaxPublish
       /\ chan_log' = [chan_log EXCEPT ![c] = Append(@, <<"publish", <<endpoint, track>>>>)]
       /\ RecordControls
       /\ UNCHANGED inserted

RecordUnpublish(endpoint, track) ==
    LET hit == <<endpoint, track>> \in DOMAIN tracks
    IN /\ chan_log' = IF hit
                      THEN [chan_log EXCEPT ![tracks[<<endpoint, track>>][3]] =
                                Append(@, <<"unpublish", <<endpoint, track>>>>)]
                      ELSE chan_log
       /\ RecordControls
       /\ UNCHANGED inserted

RecordInsert(endpoint, track, peer, name) ==
    LET c == gen_track_channel_id(PublisherRoom, peer, name)
    IN /\ inserted' = [inserted EXCEPT ![c] =
                           IF <<endpoint, track>> \in SeqToSet(@) THEN @
                           ELSE Append(@, <<endpoint, track>>)]
       /\ UNCHANGED <<chan_log, pub_start, pub_stop>>

RecordRemove(endpoint, track) ==
    LET hit == <<endpoint, track>> \in DOMAIN tracks
    IN /\ inserted' = IF hit
                      THEN [inserted EXCEPT ![tracks[<<endpoint, track>>][3]] =
                                SelectSeq2(@, <<endpoint, track>>)]
                      ELSE inserted
       /\ UNCHANGED <<chan_log, pub_start, pub_stop>>

(***************************************************************************)
(* The cluster engine: MediaCluster, its task group of rooms, and the     *)
(* rooms as far as the engine drives them.                                 *)
(***************************************************************************)
RoomHashes == {1, 2}

\* the room hashes whose inputs and outputs are recorded
TracedRooms == {1}

\* RoomInfoPublish { peer, tracks } and RoomInfoSubscribe { peers, tracks }
Scope(pub_peer, pub_tracks, sub_peers, sub_tracks) ==
    [publish |-> [peer |-> pub_peer, tracks |-> pub_tracks],
     subscribe |-> [peers |-> sub_peers, tracks |-> sub_tracks]]

\* the scope of tests::room_manager_should_work, no scope, every scope
JoinScopes ==
    {Scope(TRUE, FALSE, TRUE, FALSE), Scope(FALSE, FALSE, FALSE, FALSE),
     Scope(TRUE, TRUE, TRUE, TRUE)}

\* ClusterEndpointControl::Join(peer, meta, publish, subscribe, None)
ControlJoin(peer, scope) ==
    [ctl |-> "Join", peer |-> peer, publish |-> scope.publish, subscribe |-> scope.subscribe,
     mixer |-> FALSE]

\* ClusterEndpointControl::Join(peer, meta, publish, subscribe, Some(mixer_cfg))
ControlJoinMixer(peer, scope) == [ControlJoin(peer, scope) EXCEPT !.mixer = TRUE]

\* ClusterEndpointControl::Leave
ControlLeave ==
    [ctl |-> "Leave", peer |-> "", publish |-> Scope(FALSE, FALSE, FALSE, FALSE).publish,
     subscribe |-> Scope(FALSE, FALSE, FALSE, FALSE).subscribe, mixer |-> FALSE]

\* the peer an endpoint joins as
PeerOf(endpoint) == IF endpoint = 1 THEN "peer1" ELSE "peer2"

\* the controls an endpoint sends
Controls(endpoint) == {ControlJoin(PeerOf(endpoint), sc) : sc \in JoinScopes} \cup {ControlLeave}

\* the same, and a Join with every scope and an audio mixer
ControlsMixer(endpoint) ==
    Controls(endpoint) \cup {ControlJoinMixer(PeerOf(endpoint), Scope(TRUE, TRUE, TRUE, TRUE))}

\* dht_kv MapEvent::OnSet(key, version, info) / OnDel(key, version) on the peers map
SdnEvents == {[ev |-> e, peer |-> "peer1"] : e \in {"OnSet", "OnDel"}}

\* room::Input
RoomInputEndpoint(endpoint, control) == [input |-> "Endpoint", endpoint |-> endpoint, data |-> control]
RoomInputSdn(event) == [input |-> "Sdn", endpoint |-> 0, data |-> event]

\* id_generator::peers_map / tracks_map: H(room_hash || "peers"), H(room_hash || "tracks")
peers_map(room) == <<room, "peers">>
tracks_map(room) == <<room, "tracks">>

\* the channel of the room's audio mixer
mixer_channel(room) == <<room, "mixer">>

\* room::Output
RoomSdn(room, map, cmd, key) == [out |-> "Sdn", room |-> room, map |-> map, cmd |-> cmd, key |-> key]
RoomEndpoint(endpoints, ev, peer) == [out |-> "Endpoint", endpoints |-> endpoints, ev |-> ev, peer |-> peer]
RoomOnResourceEmpty(room) == [out |-> "OnResourceEmpty", room |-> room]

\* a room; `live` is FALSE for a free slot of the task group
Room(live, room, peers, q) == [live |-> live, room |-> room, peers |-> peers, queue |-> q]

NoRoom == Room(FALSE, 0, EmptyMap, <<>>)

\* ClusterRoom::new
Room_new(room) == Room(TRUE, room, EmptyMap, <<>>)

OutIf(cond, out) == IF cond THEN <<out>> ELSE <<>>

\* Join: publisher-peer Set, then peers Sub, then tracks Sub, then mixer attach
Room_on_join(r, endpoint, control) ==
    [r EXCEPT !.peers = MapInsert(@, endpoint, control),
              !.queue = @ \o OutIf(control.publish.peer,
                                   RoomSdn(r.room, peers_map(r.room), "Set", control.peer))
                          \o OutIf(control.subscribe.peers,
                                   RoomSdn(r.room, peers_map(r.room), "Sub", ""))
                          \o OutIf(control.subscribe.tracks,
                                   RoomSdn(r.room, tracks_map(r.room), "Sub", ""))
                          \o OutIf(control.mixer,
                                   RoomSdn(r.room, mixer_channel(r.room), "Attach", ""))]

\* Leave: Del for the prior Set, Unsub for each prior Sub
Room_on_leave(r, endpoint) ==
    IF endpoint \notin DOMAIN r.peers THEN r
    ELSE LET joined == r.peers[endpoint]
         IN [r EXCEPT !.peers = MapRemove(@, endpoint),
                      !.queue = @ \o OutIf(joined.publish.peer,
                                           RoomSdn(r.room, peers_map(r.room), "Del", joined.peer))
                                  \o OutIf(joined.subscribe.peers,
                                           RoomSdn(r.room, peers_map(r.room), "Unsub", ""))
                                  \o OutIf(joined.subscribe.tracks,
                                           RoomSdn(r.room, tracks_map(r.room), "Unsub", ""))
                                  \o OutIf(joined.mixer,
                                           RoomSdn(r.room, mixer_channel(r.room), "Detach", ""))]

\* OnSet / OnDel on the peers map: PeerJoined / PeerLeaved to the endpoints
\* that subscribed to peers
Room_on_sdn(r, event) ==
    LET subscribers == {e \in DOMAIN r.peers : r.peers[e].subscribe.peers}
        ev == IF event.ev = "OnSet" THEN "PeerJoined" ELSE "PeerLeaved"
    IN IF subscribers = {} THEN r
       ELSE [r EXCEPT !.queue = Append(@, RoomEndpoint(subscribers, ev, event.peer))]

\* ClusterRoom::on_event
Room_on_event(r, input) ==
    IF input.input = "Sdn" THEN Room_on_sdn(r, input.data)
    ELSE IF input.data.ctl = "Join" THEN Room_on_join(r, input.endpoint, input.data)
    ELSE Room_on_leave(r, input.endpoint)

\* ClusterRoom::on_shutdown
Room_on_shutdown(r) == r

\* ClusterRoom::is_empty: no peers and no pending outputs
Room_is_empty(r) == r.peers = EmptyMap /\ r.queue = <<>>

\* ClusterRoom::pop_output, then its empty event once it is empty
Room_pop_output(r) ==
    IF r.queue # <<>> THEN [room |-> [r EXCEPT !.queue = Tail(@)], some |-> TRUE, out |-> Head(r.queue)]
    ELSE IF Room_is_empty(r) THEN [room |-> r, some |-> TRUE, out |-> RoomOnResourceEmpty(r.room)]
    ELSE [room |-> r, some |-> FALSE, out |-> RoomOnResourceEmpty(0)]

(***************************************************************************)
(* sans_io_runtime::TaskGroup, as MediaCluster uses it.  Task indexes are  *)
(* 0-based; slot i of the sequence holds the task of index i - 1.          *)
(***************************************************************************)
LiveSlots(tasks) == {i \in 1..Len(tasks) : tasks[i].live}

\* TaskGroup::tasks
TaskGroup_tasks(tasks) == Cardinality(LiveSlots(tasks))

Minimum(S) == CHOOSE x \in S : \A y \in S : x <= y

\* TaskGroup::add_task: the first free slot, or a new one
TaskGroup_add_task(tasks, task) ==
    LET free == (1..Len(tasks)) \ LiveSlots(tasks)
    IN IF free # {}
       THEN [tasks |-> [tasks EXCEPT ![Minimum(free)] = task], index |-> Minimum(free) - 1]
       ELSE [tasks |-> Append(tasks, task), index |-> Len(tasks)]

RECURSIVE TrimFree(_)
TrimFree(tasks) ==
    IF tasks # <<>> /\ ~tasks[Len(tasks)].live
    THEN TrimFree(SubSeq(tasks, 1, Len(tasks) - 1))
    ELSE tasks

\* TaskGroup::remove_task: frees the slot, drops trailing free slots
TaskGroup_remove_task(tasks, index) ==
    TrimFree([tasks EXCEPT ![index + 1] = NoRoom])

\* TaskGroup::on_event
TaskGroup_on_event(tasks, index, input) ==
    IF index + 1 \in LiveSlots(tasks)
    THEN [tasks EXCEPT ![index + 1] = Room_on_event(@, input)]
    ELSE tasks

\* TaskGroup::on_shutdown
TaskGroup_on_shutdown(tasks) == [i \in 1..Len(tasks) |-> Room_on_shutdown(tasks[i])]

\* TaskGroup::is_empty
TaskGroup_is_empty(tasks) == TaskGroup_tasks(tasks) = 0

\* TaskGroup::pop_output, polling the task of this index
TaskGroup_pop_output(tasks, index) ==
    LET popped == Room_pop_output(tasks[index + 1])
    IN [tasks |-> [tasks EXCEPT ![index + 1] = popped.room],
        some |-> popped.some, index |-> index, out |-> popped.out]

(***************************************************************************)
(* MediaCluster.                                                           *)
(***************************************************************************)
\* `broadcasts` counts the calls of rooms.on_shutdown
Cluster(rm, rs, sd, pk, bc) ==
    [rooms_map |-> rm, rooms |-> rs, shutdown |-> sd, panicked |-> pk, broadcasts |-> bc]

\* impl Default for MediaCluster
MediaCluster_default == Cluster(EmptyMap, <<>>, FALSE, FALSE, 0)

\* cluster::Output
ClusterOutSdn(userdata, map, cmd, key) ==
    [output |-> "Sdn", userdata |-> userdata, map |-> map, cmd |-> cmd, key |-> key]
ClusterOutEndpoint(endpoints, ev, peer) ==
    [output |-> "Endpoint", endpoints |-> endpoints, ev |-> ev, peer |-> peer]
OutContinue == [output |-> "Continue"]
OutNone == [output |-> "None"]
OutOnResourceEmpty == [output |-> "OnResourceEmpty"]

RECURSIVE TaskGroup_on_event_all(_, _, _)
TaskGroup_on_event_all(tasks, n, input) ==
    IF n = 0 THEN tasks
    ELSE TaskGroup_on_event(TaskGroup_on_event_all(tasks, n - 1, input), n - 1, input)

\* variant: an event for a registered room is handed to every room
MediaCluster_on_sdn_event_broadcast(c, room_hash, event) ==
    IF room_hash \notin DOMAIN c.rooms_map THEN c
    ELSE [c EXCEPT !.rooms = TaskGroup_on_event_all(@, Len(@), RoomInputSdn(event))]

\* variant: an event for an unknown room creates the room
MediaCluster_on_sdn_event_create(c, room_hash, event) ==
    IF room_hash \in DOMAIN c.rooms_map
    THEN [c EXCEPT !.rooms = TaskGroup_on_event(@, c.rooms_map[room_hash], RoomInputSdn(event))]
    ELSE LET added == TaskGroup_add_task(c.rooms, Room_new(room_hash))
         IN [c EXCEPT !.rooms_map = MapInsert(@, room_hash, added.index),
                      !.rooms = TaskGroup_on_event(added.tasks, added.index, RoomInputSdn(event))]

MediaCluster_on_sdn_event(c, room_hash, event) ==
    IF room_hash \notin DOMAIN c.rooms_map THEN c
    ELSE [c EXCEPT !.rooms = TaskGroup_on_event(@, c.rooms_map[room_hash], RoomInputSdn(event))]

\* variant: a Leave for a registered room is not handed to the room
MediaCluster_on_endpoint_control_drop_leave(c, endpoint, room_hash, control) ==
    IF room_hash \in DOMAIN c.rooms_map
    THEN IF control.ctl = "Leave" THEN c
         ELSE [c EXCEPT !.rooms = TaskGroup_on_event(@, c.rooms_map[room_hash],
                                                     RoomInputEndpoint(endpoint, control))]
    ELSE LET added == TaskGroup_add_task(c.rooms, Room_new(room_hash))
         IN [c EXCEPT !.rooms_map = MapInsert(@, room_hash, added.index),
                      !.rooms = TaskGroup_on_event(added.tasks, added.index,
                                                   RoomInputEndpoint(endpoint, control))]

\* variant: the control is handed to the room twice
MediaCluster_on_endpoint_control_dispatch_twice(c, endpoint, room_hash, control) ==
    IF room_hash \in DOMAIN c.rooms_map
    THEN [c EXCEPT !.rooms = TaskGroup_on_event(
                                 TaskGroup_on_event(@, c.rooms_map[room_hash],
                                                    RoomInputEndpoint(endpoint, control)),
                                 c.rooms_map[room_hash], RoomInputEndpoint(endpoint, control))]
    ELSE LET added == TaskGroup_add_task(c.rooms, Room_new(room_hash))
         IN [c EXCEPT !.rooms_map = MapInsert(@, room_hash, added.index),
                      !.rooms = TaskGroup_on_event(
                                    TaskGroup_on_event(added.tasks, added.index,
                                                       RoomInputEndpoint(endpoint, control)),
                                    added.index, RoomInputEndpoint(endpoint, control))]

\* variant: a room is created for every control
MediaCluster_on_endpoint_control_always_create(c, endpoint, room_hash, control) ==
    LET added == TaskGroup_add_task(c.rooms, Room_new(room_hash))
    IN [c EXCEPT !.rooms_map = MapInsert(@, room_hash, added.index),
                 !.rooms = TaskGroup_on_event(added.tasks, added.index,
                                              RoomInputEndpoint(endpoint, control))]

\* variant: a control that arrives after shutdown is dropped
MediaCluster_on_endpoint_control_closed(c, endpoint, room_hash, control) ==
    IF c.shutdown THEN c
    ELSE IF room_hash \in DOMAIN c.rooms_map
    THEN [c EXCEPT !.rooms = TaskGroup_on_event(@, c.rooms_map[room_hash],
                                                RoomInputEndpoint(endpoint, control))]
    ELSE LET added == TaskGroup_add_task(c.rooms, Room_new(room_hash))
         IN [c EXCEPT !.rooms_map = MapInsert(@, room_hash, added.index),
                      !.rooms = TaskGroup_on_event(added.tasks, added.index,
                                                   RoomInputEndpoint(endpoint, control))]

MediaCluster_on_endpoint_control(c, endpoint, room_hash, control) ==
    IF room_hash \in DOMAIN c.rooms_map
    THEN [c EXCEPT !.rooms = TaskGroup_on_event(@, c.rooms_map[room_hash],
                                                RoomInputEndpoint(endpoint, control))]
    ELSE LET added == TaskGroup_add_task(c.rooms, Room_new(room_hash))
         IN [c EXCEPT !.rooms_map = MapInsert(@, room_hash, added.index),
                      !.rooms = TaskGroup_on_event(added.tasks, added.index,
                                                   RoomInputEndpoint(endpoint, control))]

\* variant: every call broadcasts
MediaCluster_shutdown_always(c) ==
    [c EXCEPT !.rooms = TaskGroup_on_shutdown(@), !.broadcasts = @ + 1, !.shutdown = TRUE]

MediaCluster_shutdown(c) ==
    IF c.shutdown THEN c
    ELSE [c EXCEPT !.rooms = TaskGroup_on_shutdown(@), !.broadcasts = @ + 1,
                   !.shutdown = TRUE]

\* variant: empty as soon as no room remains
MediaCluster_is_empty_rooms_only(c) == TaskGroup_is_empty(c.rooms)

\* MediaCluster::is_empty
MediaCluster_is_empty(c) == c.shutdown /\ TaskGroup_is_empty(c.rooms)

\* MediaCluster::empty_event
MediaCluster_empty_event == OutOnResourceEmpty

\* variant: the room is removed from the task group, its hash stays registered
MediaCluster_pop_output_keep_registry(c, index) ==
    LET popped == TaskGroup_pop_output(c.rooms, index)
        c1 == [c EXCEPT !.rooms = popped.tasks]
    IN IF ~popped.some THEN [cluster |-> c1, out |-> OutNone]
       ELSE IF popped.out.out = "OnResourceEmpty"
       THEN [cluster |-> [c1 EXCEPT !.rooms = TaskGroup_remove_task(@, popped.index)],
             out |-> OutContinue]
       ELSE IF popped.out.out = "Sdn"
       THEN [cluster |-> c1,
             out |-> ClusterOutSdn(popped.out.room, popped.out.map, popped.out.cmd, popped.out.key)]
       ELSE [cluster |-> c1,
             out |-> ClusterOutEndpoint(popped.out.endpoints, popped.out.ev, popped.out.peer)]

\* variant: OnResourceEmpty is answered with Continue, the room is kept
MediaCluster_pop_output_no_reap(c, index) ==
    LET popped == TaskGroup_pop_output(c.rooms, index)
        c1 == [c EXCEPT !.rooms = popped.tasks]
    IN IF ~popped.some THEN [cluster |-> c1, out |-> OutNone]
       ELSE IF popped.out.out = "OnResourceEmpty"
       THEN [cluster |-> c1, out |-> OutContinue]
       ELSE IF popped.out.out = "Sdn"
       THEN [cluster |-> c1,
             out |-> ClusterOutSdn(popped.out.room, popped.out.map, popped.out.cmd, popped.out.key)]
       ELSE [cluster |-> c1,
             out |-> ClusterOutEndpoint(popped.out.endpoints, popped.out.ev, popped.out.peer)]

\* variant: the hash is unregistered, the room stays in the task group
MediaCluster_pop_output_keep_task(c, index) ==
    LET popped == TaskGroup_pop_output(c.rooms, index)
        c1 == [c EXCEPT !.rooms = popped.tasks]
    IN IF ~popped.some THEN [cluster |-> c1, out |-> OutNone]
       ELSE IF popped.out.out = "OnResourceEmpty"
       THEN IF popped.out.room \notin DOMAIN c1.rooms_map
            THEN [cluster |-> [c1 EXCEPT !.panicked = TRUE], out |-> OutNone]
            ELSE [cluster |-> [c1 EXCEPT !.rooms_map = MapRemove(@, popped.out.room)],
                  out |-> OutContinue]
       ELSE IF popped.out.out = "Sdn"
       THEN [cluster |-> c1,
             out |-> ClusterOutSdn(popped.out.room, popped.out.map, popped.out.cmd, popped.out.key)]
       ELSE [cluster |-> c1,
             out |-> ClusterOutEndpoint(popped.out.endpoints, popped.out.ev, popped.out.peer)]

\* variant: the reaping of a room is reported as the engine's OnResourceEmpty
MediaCluster_pop_output_report_empty(c, index) ==
    LET popped == TaskGroup_pop_output(c.rooms, index)
        c1 == [c EXCEPT !.rooms = popped.tasks]
    IN IF ~popped.some THEN [cluster |-> c1, out |-> OutNone]
       ELSE IF popped.out.out = "OnResourceEmpty"
       THEN IF popped.out.room \notin DOMAIN c1.rooms_map
            THEN [cluster |-> [c1 EXCEPT !.panicked = TRUE], out |-> OutNone]
            ELSE [cluster |-> [c1 EXCEPT !.rooms_map = MapRemove(@, popped.out.room),
                                         !.rooms = TaskGroup_remove_task(@, popped.index)],
                  out |-> OutOnResourceEmpty]
       ELSE IF popped.out.out = "Sdn"
       THEN [cluster |-> c1,
             out |-> ClusterOutSdn(popped.out.room, popped.out.map, popped.out.cmd, popped.out.key)]
       ELSE [cluster |-> c1,
             out |-> ClusterOutEndpoint(popped.out.endpoints, popped.out.ev, popped.out.peer)]

\* MediaCluster::pop_output when the task group polls the room of this index
MediaCluster_pop_output(c, index) ==
    LET popped == TaskGroup_pop_output(c.rooms, index)
        c1 == [c EXCEPT !.rooms = popped.tasks]
    IN IF ~popped.some THEN [cluster |-> c1, out |-> OutNone]
       ELSE IF popped.out.out = "OnResourceEmpty"
       THEN IF popped.out.room \notin DOMAIN c1.rooms_map
            THEN \* expect("Should have room with index")
                 [cluster |-> [c1 EXCEPT !.panicked = TRUE], out |-> OutNone]
            ELSE [cluster |-> [c1 EXCEPT !.rooms_map = MapRemove(@, popped.out.room),
                                         !.rooms = TaskGroup_remove_task(@, popped.index)],
                  out |-> OutContinue]
       ELSE IF popped.out.out = "Sdn"
       THEN [cluster |-> c1,
             out |-> ClusterOutSdn(popped.out.room, popped.out.map, popped.out.cmd, popped.out.key)]
       ELSE [cluster |-> c1,
             out |-> ClusterOutEndpoint(popped.out.endpoints, popped.out.ev, popped.out.peer)]

(***************************************************************************)
(* The cluster engine as a state machine.                                  *)
(***************************************************************************)
SelfCluster == Cluster(rooms_map, rooms, shutdown, cluster_panicked, shutdown_broadcasts)

SetClusterFields(c) ==
    /\ rooms_map' = c.rooms_map
    /\ rooms' = c.rooms
    /\ shutdown' = c.shutdown
    /\ cluster_panicked' = c.panicked
    /\ shutdown_broadcasts' = c.broadcasts
    /\ UNCHANGED <<pub_vars, hist_vars, gateway_vars, worker_vars, hash_vars>>

SetCluster(c) ==
    /\ SetClusterFields(c)
    /\ UNCHANGED branch_is_empty

ClusterInit ==
    /\ rooms_map = MediaCluster_default.rooms_map
    /\ rooms = MediaCluster_default.rooms
    /\ shutdown = MediaCluster_default.shutdown
    /\ cluster_panicked = MediaCluster_default.panicked
    /\ shutdown_broadcasts = MediaCluster_default.broadcasts
    /\ returned = OutNone
    /\ branch_is_empty = FALSE

TraceInit == room_log = [h \in TracedRooms |-> <<>>]


RECURSIVE PendingOutputs(_)
PendingOutputs(tasks) ==
    IF tasks = <<>> THEN 0 ELSE Len(Head(tasks).queue) + PendingOutputs(Tail(tasks))

\* an input is handled once the outputs of earlier ones are (nearly) drained
ClusterReady == ~cluster_panicked /\ PendingOutputs(rooms) <= MaxRoomPending

\* an endpoint joins a room it is not in
Acceptable(endpoint, room_hash, control) ==
    control.ctl = "Join" =>
        \A i \in LiveSlots(rooms) :
            rooms[i].room = room_hash => endpoint \notin DOMAIN rooms[i].peers

OnEndpointControl(endpoint, room_hash, control) ==
    /\ ClusterReady
    /\ Acceptable(endpoint, room_hash, control)
    /\ SetCluster(MediaCluster_on_endpoint_control(SelfCluster, endpoint, room_hash, control))
    /\ returned' = OutNone
    /\ last' = Last("control", room_hash \in DOMAIN rooms_map)

OnSdnEvent(room_hash, event) ==
    /\ ClusterReady
    /\ SetCluster(MediaCluster_on_sdn_event(SelfCluster, room_hash, event))
    /\ returned' = OutNone
    /\ last' = Last("sdn", room_hash \in DOMAIN rooms_map)

Shutdown ==
    /\ ClusterReady
    /\ SetCluster(MediaCluster_shutdown(SelfCluster))
    /\ returned' = OutNone
    /\ last' = Last("shutdown", shutdown)

\* pop_output with an output of the room of this index
ClusterPopOutput(index) ==
    LET popped == MediaCluster_pop_output(SelfCluster, index)
    IN /\ ~cluster_panicked
       /\ index + 1 \in LiveSlots(rooms)
       /\ popped.out # OutNone \/ popped.cluster.panicked
       /\ SetCluster(popped.cluster)
       /\ returned' = popped.out
       /\ last' = Last("cluster_pop", TRUE)

\* pop_output when no room has anything to give
ClusterPopNone ==
    /\ ~cluster_panicked
    /\ \A i \in LiveSlots(rooms) : ~Room_pop_output(rooms[i]).some
    /\ SetCluster(SelfCluster)
    /\ returned' = OutNone
    /\ last' = Last("cluster_pop", FALSE)


\* The parent holds the cluster in a branch and polls it through the branch:
\* an output of the cluster is passed on; when the cluster has none, is
\* empty and the branch has not said so yet, the branch gives the cluster's
\* empty_event and remembers it.
TaskSwitcherBranch_pop_none(c, emitted) ==
    IF ~emitted /\ MediaCluster_is_empty(c)
    THEN [is_empty |-> TRUE, out |-> MediaCluster_empty_event]
    ELSE [is_empty |-> emitted, out |-> OutNone]

\* the branch's pop_output with an output of the room of this index
BranchPopOutput(index) == ClusterPopOutput(index)

\* the branch's pop_output when no room has anything to give
BranchPopNone ==
    LET popped == TaskSwitcherBranch_pop_none(SelfCluster, branch_is_empty)
    IN /\ ~cluster_panicked
       /\ \A i \in LiveSlots(rooms) : ~Room_pop_output(rooms[i]).some
       /\ SetClusterFields(SelfCluster)
       /\ branch_is_empty' = popped.is_empty
       /\ returned' = popped.out
       /\ last' = Last("branch_pop", popped.out # OutNone)

\* the parent polls the branch until it gives nothing before the next input
Polled == returned = OutNone /\ PendingOutputs(rooms) = 0

(***************************************************************************)
(* The gateway's handler of RPCs from other gateways:                      *)
(* MediaRemoteRpcHandlerImpl.  Each call is an async task; its steps are   *)
(* the stretches between two awaits.  after_ms is left out of the events.  *)
(***************************************************************************)
\* the calls that can be running at once
CallIds == {1, 2}

\* the nodes the selector and the conn ids can name; NoNode stands for None
Nodes == {10, 20}
NoNode == 0

ConnectMethods ==
    {"whip_connect", "whep_connect", "webrtc_connect",
     "rtp_engine_create_offer", "rtp_engine_create_answer"}

RelayMethods ==
    {"whip_remote_ice", "whip_close", "whep_remote_ice", "whep_close",
     "webrtc_remote_ice", "webrtc_restart_ice",
     "rtp_engine_set_answer", "rtp_engine_delete"}

\* req.app: None, or the context of an application
NoApp == "none"
Apps == {NoApp, "app1"}

\* AppContext::root_app().app
RootApp == "root"

\* req.app.clone().map(|a| a.into()).unwrap_or_else(AppContext::root_app).app
AppOf(app) == IF app = NoApp THEN RootApp ELSE app

\* a call's session id
SessionOf(call) == 100 + call

\* a call's req.app: the first call comes without one
RequestAppOf(call) == IF call = 1 THEN NoApp ELSE "app1"

\* req.ip of the whip/whep/webrtc requests
RequestIp == "1.2.3.4"

\* IpAddr::V4(Ipv4Addr::LOCALHOST).to_string()
Localhost == "127.0.0.1"

\* the remote_ip a connect method reports
RemoteIpOf(method) ==
    IF method \in {"rtp_engine_create_offer", "rtp_engine_create_answer"}
    THEN Localhost ELSE RequestIp

\* req.conn: a string that does not parse, or the conn id of a node's session
BadConn == [valid |-> FALSE, node |-> NoNode]
Conns == {BadConn} \cup {[valid |-> TRUE, node |-> n] : n \in Nodes}

\* req.conn.parse().ok(), then get_down_part().0
ConnDest(conn) == IF conn.valid THEN conn.node ELSE NoNode

\* peer_event::Event and PeerEvent
NoEvent == [event |-> "None", remote_ip |-> "", dest_node |-> NoNode, error |-> ""]
RouteBegin(remote_ip) == [NoEvent EXCEPT !.event = "RouteBegin", !.remote_ip = remote_ip]
RouteSuccess(node) == [NoEvent EXCEPT !.event = "RouteSuccess", !.dest_node = node]
RouteError(node, error) ==
    [NoEvent EXCEPT !.event = "RouteError", !.dest_node = node, !.error = error]
PeerEvent(app, session_id, event) == [app |-> app, session_id |-> session_id, event |-> event]

\* Option<...Response>
NoResponse == [some |-> FALSE, node |-> NoNode]
ResponseOf(node) == [some |-> TRUE, node |-> node]

\* a call: where it stands, its request, what it holds, and as history the
\* events it enqueued, the RPCs it forwarded and the selections it made
CallIdle ==
    [pc |-> "Idle", method |-> "", app |-> NoApp, session_id |-> 0, node |-> NoNode,
     pending |-> NoEvent, result |-> NoResponse, events |-> <<>>, rpcs |-> <<>>, selects |-> 0]

\* feedback_route_begin / feedback_route_success / feedback_route_error up to
\* the await of send: the event to enqueue
feedback_route_begin(app, session_id, remote_ip) ==
    PeerEvent(app, session_id, RouteBegin(remote_ip))
feedback_route_success(app, session_id, node) ==
    PeerEvent(app, session_id, RouteSuccess(node))
feedback_route_error(app, session_id, node, error) ==
    PeerEvent(app, session_id, RouteError(node, error))

\* a connect method up to its first await: the RouteBegin is ready to be sent
connect_begin(method, app, session_id) ==
    [CallIdle EXCEPT !.pc = "SendBegin", !.method = method, !.app = app,
                     !.session_id = session_id,
                     !.pending = feedback_route_begin(AppOf(app), session_id, RemoteIpOf(method))]

\* variant: an empty pool is reported as a timeout
connect_selected_timeout(call, selected) ==
    IF selected # NoNode
    THEN [call EXCEPT !.pc = "Routing", !.node = selected, !.selects = @ + 1,
                      !.rpcs = Append(@, [method |-> call.method, node |-> selected])]
    ELSE [call EXCEPT !.pc = "SendTerminal", !.selects = @ + 1,
                      !.pending = feedback_route_error(AppOf(call.app), call.session_id,
                                                       NoNode, "Timeout"),
                      !.result = NoResponse]

\* ctx.selector.select(ServiceKind::Webrtc, location) returned `selected`
connect_selected(call, selected) ==
    IF selected # NoNode
    THEN [call EXCEPT !.pc = "Routing", !.node = selected, !.selects = @ + 1,
                      !.rpcs = Append(@, [method |-> call.method, node |-> selected])]
    ELSE [call EXCEPT !.pc = "SendTerminal", !.selects = @ + 1,
                      !.pending = feedback_route_error(AppOf(call.app), call.session_id,
                                                       NoNode, "PoolEmpty"),
                      !.result = NoResponse]

\* variant: RouteSuccess is reported whatever the downstream node answered
connect_responded_success_always(call, ok) ==
    [call EXCEPT !.pc = "SendTerminal",
                 !.pending = feedback_route_success(AppOf(call.app), call.session_id, call.node),
                 !.result = IF ok THEN ResponseOf(call.node) ELSE NoResponse]

\* variant: a call without response selects again
connect_responded_retry(call, ok) ==
    IF ok
    THEN [call EXCEPT !.pc = "SendTerminal",
                      !.pending = feedback_route_success(AppOf(call.app), call.session_id,
                                                         call.node),
                      !.result = ResponseOf(call.node)]
    ELSE [call EXCEPT !.pc = "Selecting"]

\* ctx.client.<method>(node_addr, req) returned Some(res) or None
connect_responded(call, ok) ==
    IF ok
    THEN [call EXCEPT !.pc = "SendTerminal",
                      !.pending = feedback_route_success(AppOf(call.app), call.session_id,
                                                         call.node),
                      !.result = ResponseOf(call.node)]
    ELSE [call EXCEPT !.pc = "SendTerminal",
                      !.pending = feedback_route_error(AppOf(call.app), call.session_id,
                                                       call.node, "Timeout"),
                      !.result = NoResponse]

\* connector_agent_tx.send(..).await went through
sent(call) ==
    [call EXCEPT !.pc = IF call.pc = "SendBegin" THEN "Selecting" ELSE "Done",
                 !.pending = NoEvent,
                 !.events = Append(@, call.pending)]

\* variant: a conn id that does not parse is relayed to the first node
relay_begin_unparsed(method, session_id, conn) ==
    LET dest == IF ConnDest(conn) = NoNode THEN 10 ELSE ConnDest(conn)
    IN [CallIdle EXCEPT !.pc = "Relaying", !.method = method, !.session_id = session_id,
                        !.node = dest,
                        !.rpcs = <<[method |-> method, node |-> dest]>>]

\* a relay method up to its await
relay_begin(method, session_id, conn) ==
    IF ConnDest(conn) = NoNode
    THEN [CallIdle EXCEPT !.pc = "Done", !.method = method, !.session_id = session_id]
    ELSE [CallIdle EXCEPT !.pc = "Relaying", !.method = method, !.session_id = session_id,
                          !.node = ConnDest(conn),
                          !.rpcs = <<[method |-> method, node |-> ConnDest(conn)]>>]

\* ctx.client.<method>(dest_addr, req) returned Some(res) or None
relay_responded(call, ok) ==
    [call EXCEPT !.pc = "Done", !.result = IF ok THEN ResponseOf(call.node) ELSE NoResponse]

(***************************************************************************)
(* The gateway handler as a state machine.                                 *)
(***************************************************************************)
GatewayInit ==
    /\ gw_calls = [c \in CallIds |-> CallIdle]
    /\ connector_agent_tx = <<>>

OthersUnchanged ==
    UNCHANGED <<pub_vars, hist_vars, last, cluster_vars, room_log, worker_vars, hash_vars>>

SetCall(c, call) == gw_calls' = [gw_calls EXCEPT ![c] = call]

Free(c) == gw_calls[c].pc \in {"Idle", "Done"}

\* a connect method is called
ConnectCall(c, method) ==
    /\ Free(c)
    /\ SetCall(c, connect_begin(method, RequestAppOf(c), SessionOf(c)))
    /\ UNCHANGED connector_agent_tx
    /\ OthersUnchanged

\* variant: a send that finds the channel full gives the event up (try_send)
Send_drop_on_full(c) ==
    /\ gw_calls[c].pc \in {"SendBegin", "SendTerminal"}
    /\ IF Len(connector_agent_tx) < TelemetryCapacity
       THEN /\ connector_agent_tx' = Append(connector_agent_tx, gw_calls[c].pending)
            /\ SetCall(c, sent(gw_calls[c]))
       ELSE /\ UNCHANGED connector_agent_tx
            /\ SetCall(c, [sent(gw_calls[c]) EXCEPT !.events = gw_calls[c].events])
    /\ OthersUnchanged

\* a send to the bounded channel completes once there is room
Send(c) ==
    /\ gw_calls[c].pc \in {"SendBegin", "SendTerminal"}
    /\ Len(connector_agent_tx) < TelemetryCapacity
    /\ connector_agent_tx' = Append(connector_agent_tx, gw_calls[c].pending)
    /\ SetCall(c, sent(gw_calls[c]))
    /\ OthersUnchanged

Select(c, selected) ==
    /\ gw_calls[c].pc = "Selecting"
    /\ SetCall(c, connect_selected(gw_calls[c], selected))
    /\ UNCHANGED connector_agent_tx
    /\ OthersUnchanged

ConnectResponse(c, ok) ==
    /\ gw_calls[c].pc = "Routing"
    /\ SetCall(c, connect_responded(gw_calls[c], ok))
    /\ UNCHANGED connector_agent_tx
    /\ OthersUnchanged

\* a method that continues a session is called
RelayCall(c, method, conn) ==
    /\ Free(c)
    /\ SetCall(c, relay_begin(method, SessionOf(c), conn))
    /\ UNCHANGED connector_agent_tx
    /\ OthersUnchanged

RelayResponse(c, ok) ==
    /\ gw_calls[c].pc = "Relaying"
    /\ SetCall(c, relay_responded(gw_calls[c], ok))
    /\ UNCHANGED connector_agent_tx
    /\ OthersUnchanged

\* the connector agent takes an event from the channel
Receive ==
    /\ connector_agent_tx # <<>>
    /\ connector_agent_tx' = Tail(connector_agent_tx)
    /\ UNCHANGED gw_calls
    /\ OthersUnchanged

(***************************************************************************)
(* The per-session worker group: MediaWorkerWebrtc (worker.rs).  The       *)
(* endpoint, the WebRTC transport, the shared UDP port and the task group  *)
(* live in other crates; they are modelled by what the worker relies on.   *)
(***************************************************************************)
\* the requests in flight: a request id and the variant of its caller
Requests == {<<1, "Whip">>, <<2, "Webrtc">>}
Variants == {"Whip", "Webrtc"}
\* the session indexes addressed: every slot the worker can fill
Sessions == 0..(MaxSpawns - 1)
BindAddrs == <<"bind1">>
RemoteAddrs == {"remote1", "remote2"}
\* an SDP offer the transport accepts, and one it rejects
Offers == {"offer", "garbage"}
\* MediaWorkerWebrtc::ice_lite, fixed at construction
WorkerIceLite == TRUE

\* transport::ExtIn
ExtInRemoteIce(req_id, variant) == [ext |-> "RemoteIce", req_id |-> req_id, variant |-> variant]
ExtInRestartIce(req_id, variant, req) ==
    [ext |-> "RestartIce", req_id |-> req_id, variant |-> variant, req |-> req]
ExtInDisconnect(req_id, variant) == [ext |-> "Disconnect", req_id |-> req_id, variant |-> variant]
ExtIns ==
    {ExtInRemoteIce(r[1], r[2]) : r \in Requests}
    \cup {ExtInRestartIce(r[1], r[2], o) : r \in Requests, o \in Offers}
    \cup {ExtInDisconnect(r[1], r[2]) : r \in Requests}

\* RpcResult of an ExtOut
ResOk == [ok |-> TRUE]
ResRestartOk(ice_lite, sdp) == [ok |-> TRUE, ice_lite |-> ice_lite, sdp |-> sdp]
ResErr(code) == [ok |-> FALSE, code |-> code]
RpcEndpointNotFound == "RpcEndpointNotFound"

\* transport::ExtOut
ExtOut(ext, req_id, variant, res) == [ext |-> ext, req_id |-> req_id, variant |-> variant, res |-> res]

\* the payload of a UDP packet: a STUN binding request naming a server-side
\* ufrag, or anything else
Stun(ufrag) == [stun |-> TRUE, ufrag |-> ufrag]
NotStun == [stun |-> FALSE]
Datas == {Stun(u) : u \in 1..MaxSpawns} \cup {NotStun}

\* EndpointInput
EndpointInputNet(from, data) == [input |-> "Net", from |-> from, data |-> data]
EndpointInputCluster(event) == [input |-> "Cluster", event |-> event]
EndpointInputExt(ext) == [input |-> "Ext", ext |-> ext]

\* EndpointOutput
EndpointOutNet(to) == [out |-> "Net", to |-> to]
EndpointOutExt(ext) == [out |-> "Ext", ext |-> ext]
EndpointOnResourceEmpty == [out |-> "OnResourceEmpty"]

\* an endpoint task: `id` tells the endpoints a worker builds apart (it is
\* also the ufrag of its transport); a closed endpoint has nothing left but
\* the outputs in its queue
Endpoint(id, q, closed) == [live |-> TRUE, id |-> id, queue |-> q, closed |-> closed]
NoEndpoint == [live |-> FALSE, id |-> 0, queue |-> <<>>, closed |-> FALSE]

\* Endpoint::on_event: a packet is answered, a request is answered, a
\* Disconnect closes the endpoint
Endpoint_on_event(e, input) ==
    IF input.input = "Net" THEN [e EXCEPT !.queue = Append(@, EndpointOutNet(input.from))]
    ELSE IF input.input = "Cluster" THEN e
    ELSE IF input.ext.ext = "RestartIce"
    THEN [e EXCEPT !.queue = Append(@, EndpointOutExt(
              ExtOut("RestartIce", input.ext.req_id, input.ext.variant, ResRestartOk(WorkerIceLite, e.id))))]
    ELSE IF input.ext.ext = "RemoteIce"
    THEN [e EXCEPT !.queue = Append(@, EndpointOutExt(
              ExtOut("RemoteIce", input.ext.req_id, input.ext.variant, ResOk)))]
    ELSE [e EXCEPT !.queue = Append(@, EndpointOutExt(
              ExtOut("Disconnect", input.ext.req_id, input.ext.variant, ResOk))),
                   !.closed = TRUE]

\* Endpoint::on_shutdown
Endpoint_on_shutdown(e) == IF e.live THEN [e EXCEPT !.closed = TRUE] ELSE e

\* Endpoint::pop_output
Endpoint_pop_output(e) ==
    IF e.queue # <<>> THEN [endpoint |-> [e EXCEPT !.queue = Tail(@)], some |-> TRUE, out |-> Head(e.queue)]
    ELSE IF e.closed THEN [endpoint |-> e, some |-> TRUE, out |-> EndpointOnResourceEmpty]
    ELSE [endpoint |-> e, some |-> FALSE, out |-> EndpointOnResourceEmpty]

\* TaskGroup::remove_task, of the endpoints
Endpoints_remove_task(tasks, index) ==
    IF index + 1 \in 1..Len(tasks) THEN TrimFree([tasks EXCEPT ![index + 1] = NoEndpoint]) ELSE tasks

\* TaskGroup::has_task
Endpoints_has_task(tasks, index) == index + 1 \in LiveSlots(tasks)

\* TaskGroup::on_event, of the endpoints
Endpoints_on_event(tasks, index, input) ==
    IF Endpoints_has_task(tasks, index)
    THEN [tasks EXCEPT ![index + 1] = Endpoint_on_event(@, input)]
    ELSE tasks

\* TaskGroup::on_shutdown, of the endpoints
Endpoints_on_shutdown(tasks) == [i \in 1..Len(tasks) |-> Endpoint_on_shutdown(tasks[i])]

\* TaskGroup::pop_output, polling the endpoint of this index
Endpoints_pop_output(tasks, index) ==
    LET popped == Endpoint_pop_output(tasks[index + 1])
    IN [tasks |-> [tasks EXCEPT ![index + 1] = popped.endpoint],
        some |-> popped.some, index |-> index, out |-> popped.out]

(***************************************************************************)
(* SharedUdpPort: ufrag -> task and remote address -> task.                *)
(***************************************************************************)
SharedUdpPort(task_ufrags, task_remotes) == [task_ufrags |-> task_ufrags, task_remotes |-> task_remotes]

\* SharedUdpPort::add_ufrag
SharedUdpPort_add_ufrag(sp, ufrag, index) == [sp EXCEPT !.task_ufrags = MapInsert(@, ufrag, index)]

\* SharedUdpPort::remove_task: every registration of the task goes
SharedUdpPort_remove_task(sp, index) ==
    SharedUdpPort([u \in {x \in DOMAIN sp.task_ufrags : sp.task_ufrags[x] # index} |-> sp.task_ufrags[u]],
                  [a \in {x \in DOMAIN sp.task_remotes : sp.task_remotes[x] # index} |-> sp.task_remotes[a]])

\* SharedUdpPort::map_remote: the address index, else the ufrag of a STUN
\* request, which is then cached under the address
SharedUdpPort_map_remote(sp, from, data) ==
    IF from \in DOMAIN sp.task_remotes
    THEN [shared_port |-> sp, some |-> TRUE, index |-> sp.task_remotes[from]]
    ELSE IF data.stun /\ data.ufrag \in DOMAIN sp.task_ufrags
    THEN [shared_port |-> [sp EXCEPT !.task_remotes = MapInsert(@, from, sp.task_ufrags[data.ufrag])],
          some |-> TRUE, index |-> sp.task_ufrags[data.ufrag]]
    ELSE [shared_port |-> sp, some |-> FALSE, index |-> 0]

(***************************************************************************)
(* MediaWorkerWebrtc.                                                      *)
(***************************************************************************)
\* `spawned` counts the endpoints built, `delivered` is the input the last
\* operation handed to an endpoint, `built` the endpoint it built
Worker(ep, sp, ad, q, sd, n, dl, bt) ==
    [endpoints |-> ep, shared_port |-> sp, addrs |-> ad, queue |-> q, shutdown |-> sd,
     spawned |-> n, delivered |-> dl, built |-> bt]

NoDelivery == [to |-> 0]
Delivery(id, index, input) == [to |-> id, index |-> index, input |-> input]
NoBuilt == [id |-> 0]
Built(id, variant, index) == [id |-> id, variant |-> variant, index |-> index]

\* GroupOutput
GroupOutNet(net) == [output |-> "Net", net |-> net]
GroupOutExt(session, ext) == [output |-> "Ext", session |-> session, ext |-> ext]
UdpListen(addr) == [net |-> "UdpListen", addr |-> addr, reuse |-> FALSE]
UdpPacketTo(to) == [net |-> "UdpPacket", to |-> to]

\* MediaWorkerWebrtc::new
MediaWorkerWebrtc_new ==
    Worker(<<>>, SharedUdpPort(EmptyMap, EmptyMap), <<>>,
           [i \in 1..Len(BindAddrs) |-> GroupOutNet(UdpListen(BindAddrs[i]))], FALSE, 0, NoDelivery, NoBuilt)

\* self.endpoints.on_event(now, index, input)
Deliver(w, index, input) ==
    IF Endpoints_has_task(w.endpoints, index)
    THEN [w EXCEPT !.endpoints = Endpoints_on_event(@, index, input),
                   !.delivered = Delivery(w.endpoints[index + 1].id, index, input)]
    ELSE w

\* MediaWorkerWebrtc::spawn: the transport rejects a bad offer; the ufrag of
\* a new transport is fresh
MediaWorkerWebrtc_spawn(w, variant, req) ==
    IF req # "offer" THEN [worker |-> w, ok |-> FALSE, index |-> 0, sdp |-> 0]
    ELSE LET ufrag == w.spawned + 1
             added == TaskGroup_add_task(w.endpoints, Endpoint(ufrag, <<>>, FALSE))
         IN [worker |-> [w EXCEPT !.endpoints = added.tasks,
                                  !.shared_port = SharedUdpPort_add_ufrag(@, ufrag, added.index),
                                  !.spawned = ufrag,
                                  !.built = Built(ufrag, variant, added.index)],
             ok |-> TRUE, index |-> added.index, sdp |-> ufrag]

\* variant: an endpoint that ran empty leaves the task group only
MediaWorkerWebrtc_process_output_keep_registrations(w, index, out) ==
    IF out.out = "Net" THEN [worker |-> w, out |-> GroupOutNet(UdpPacketTo(out.to))]
    ELSE IF out.out = "OnResourceEmpty"
    THEN [worker |-> [w EXCEPT !.endpoints = Endpoints_remove_task(@, index)], out |-> OutContinue]
    ELSE [worker |-> w, out |-> GroupOutExt(index, out.ext)]

\* MediaWorkerWebrtc::process_output
MediaWorkerWebrtc_process_output(w, index, out) ==
    IF out.out = "Net" THEN [worker |-> w, out |-> GroupOutNet(UdpPacketTo(out.to))]
    ELSE IF out.out = "OnResourceEmpty"
    THEN [worker |-> [w EXCEPT !.endpoints = Endpoints_remove_task(@, index),
                               !.shared_port = SharedUdpPort_remove_task(@, index)],
          out |-> OutContinue]
    ELSE [worker |-> w, out |-> GroupOutExt(index, out.ext)]

\* MediaWorkerWebrtc::on_event, GroupInput::Net(UdpListenResult)
MediaWorkerWebrtc_on_udp_listen_result(w, bind, ok, slot) ==
    IF ok THEN [w EXCEPT !.addrs = Append(@, <<bind, slot>>)] ELSE w

\* MediaWorkerWebrtc::on_event, GroupInput::Net(UdpPacket)
MediaWorkerWebrtc_on_udp_packet(w, from, data) ==
    LET mapped == SharedUdpPort_map_remote(w.shared_port, from, data)
    IN IF ~mapped.some THEN w
       ELSE Deliver([w EXCEPT !.shared_port = mapped.shared_port], mapped.index,
                    EndpointInputNet(from, data))

\* MediaWorkerWebrtc::on_event, GroupInput::Cluster
MediaWorkerWebrtc_on_cluster(w, owner, event) == Deliver(w, owner, EndpointInputCluster(event))

\* variant: the input goes to the task group whether or not the task exists
MediaWorkerWebrtc_on_ext_unchecked(w, owner, ext) == Deliver(w, owner, EndpointInputExt(ext))

\* variant: RestartIce builds a new endpoint even when the session is live
MediaWorkerWebrtc_on_ext_always_spawn(w, owner, ext) ==
    IF ext.ext # "RestartIce"
    THEN IF Endpoints_has_task(w.endpoints, owner) THEN Deliver(w, owner, EndpointInputExt(ext))
         ELSE [w EXCEPT !.queue = Append(@, GroupOutExt(owner,
                   ExtOut(ext.ext, ext.req_id, ext.variant, ResErr(RpcEndpointNotFound))))]
    ELSE LET spawned == MediaWorkerWebrtc_spawn(w, "Webrtc", ext.req)
         IN IF spawned.ok
            THEN [spawned.worker EXCEPT !.queue = Append(@, GroupOutExt(spawned.index,
                      ExtOut("RestartIce", ext.req_id, ext.variant,
                             ResRestartOk(WorkerIceLite, spawned.sdp))))]
            ELSE [w EXCEPT !.queue = Append(@, GroupOutExt(owner,
                      ExtOut("RestartIce", ext.req_id, ext.variant, ResErr(RpcEndpointNotFound))))]

\* variant: the answer of a RestartIce that spawned goes to the session of
\* the request
MediaWorkerWebrtc_on_ext_answer_owner(w, owner, ext) ==
    IF Endpoints_has_task(w.endpoints, owner) THEN Deliver(w, owner, EndpointInputExt(ext))
    ELSE IF ext.ext = "RemoteIce"
    THEN [w EXCEPT !.queue = Append(@, GroupOutExt(owner,
              ExtOut("RemoteIce", ext.req_id, ext.variant, ResErr(RpcEndpointNotFound))))]
    ELSE IF ext.ext = "RestartIce"
    THEN LET spawned == MediaWorkerWebrtc_spawn(w, "Webrtc", ext.req)
         IN IF spawned.ok
            THEN [spawned.worker EXCEPT !.queue = Append(@, GroupOutExt(owner,
                      ExtOut("RestartIce", ext.req_id, ext.variant,
                             ResRestartOk(WorkerIceLite, spawned.sdp))))]
            ELSE [w EXCEPT !.queue = Append(@, GroupOutExt(owner,
                      ExtOut("RestartIce", ext.req_id, ext.variant, ResErr(RpcEndpointNotFound))))]
    ELSE [w EXCEPT !.queue = Append(@, GroupOutExt(owner,
              ExtOut("Disconnect", ext.req_id, ext.variant, ResErr(RpcEndpointNotFound))))]

\* MediaWorkerWebrtc::on_event, GroupInput::Ext
MediaWorkerWebrtc_on_ext(w, owner, ext) ==
    IF Endpoints_has_task(w.endpoints, owner) THEN Deliver(w, owner, EndpointInputExt(ext))
    ELSE IF ext.ext = "RemoteIce"
    THEN [w EXCEPT !.queue = Append(@, GroupOutExt(owner,
              ExtOut("RemoteIce", ext.req_id, ext.variant, ResErr(RpcEndpointNotFound))))]
    ELSE IF ext.ext = "RestartIce"
    THEN LET spawned == MediaWorkerWebrtc_spawn(w, "Webrtc", ext.req)
         IN IF spawned.ok
            THEN [spawned.worker EXCEPT !.queue = Append(@, GroupOutExt(spawned.index,
                      ExtOut("RestartIce", ext.req_id, ext.variant,
                             ResRestartOk(WorkerIceLite, spawned.sdp))))]
            ELSE [w EXCEPT !.queue = Append(@, GroupOutExt(owner,
                      ExtOut("RestartIce", ext.req_id, ext.variant, ResErr(RpcEndpointNotFound))))]
    ELSE [w EXCEPT !.queue = Append(@, GroupOutExt(owner,
              ExtOut("Disconnect", ext.req_id, ext.variant, ResErr(RpcEndpointNotFound))))]

\* MediaWorkerWebrtc::shutdown
MediaWorkerWebrtc_shutdown(w) ==
    IF ~w.shutdown
    THEN [w EXCEPT !.shutdown = TRUE, !.endpoints = Endpoints_on_shutdown(@)]
    ELSE w

\* variant: emptiness does not look at the queue
MediaWorkerWebrtc_is_empty_ignore_queue(w) == w.shutdown /\ TaskGroup_is_empty(w.endpoints)

\* MediaWorkerWebrtc::is_empty
MediaWorkerWebrtc_is_empty(w) ==
    w.shutdown /\ w.queue = <<>> /\ TaskGroup_is_empty(w.endpoints)

\* MediaWorkerWebrtc::pop_output, the task group polling the endpoint of
\* this index once the worker's own queue is drained
MediaWorkerWebrtc_pop_output(w, index) ==
    IF w.queue # <<>> THEN [worker |-> [w EXCEPT !.queue = Tail(@)], out |-> Head(w.queue)]
    ELSE IF ~Endpoints_has_task(w.endpoints, index) THEN [worker |-> w, out |-> OutNone]
    ELSE LET popped == Endpoints_pop_output(w.endpoints, index)
             w1 == [w EXCEPT !.endpoints = popped.tasks]
         IN IF ~popped.some THEN [worker |-> w1, out |-> OutNone]
            ELSE MediaWorkerWebrtc_process_output(w1, popped.index, popped.out)

(***************************************************************************)
(* The worker as a state machine.                                          *)
(***************************************************************************)
SelfWorker ==
    Worker(worker_endpoints, worker_shared_port, worker_addrs, worker_queue, worker_shutdown,
           worker_spawned, worker_delivered, worker_built)

\* the state after an input: the delivery it made, and no output returned
SetWorker(w) ==
    /\ worker_endpoints' = w.endpoints
    /\ worker_shared_port' = w.shared_port
    /\ worker_addrs' = w.addrs
    /\ worker_queue' = w.queue
    /\ worker_shutdown' = w.shutdown
    /\ worker_spawned' = w.spawned
    /\ worker_delivered' = w.delivered
    /\ worker_built' = w.built
    /\ UNCHANGED <<pub_vars, hist_vars, cluster_vars, room_log, gateway_vars, hash_vars>>

WorkerInit ==
    /\ worker_endpoints = MediaWorkerWebrtc_new.endpoints
    /\ worker_shared_port = MediaWorkerWebrtc_new.shared_port
    /\ worker_addrs = MediaWorkerWebrtc_new.addrs
    /\ worker_queue = MediaWorkerWebrtc_new.queue
    /\ worker_shutdown = MediaWorkerWebrtc_new.shutdown
    /\ worker_spawned = MediaWorkerWebrtc_new.spawned
    /\ worker_delivered = MediaWorkerWebrtc_new.delivered
    /\ worker_built = MediaWorkerWebrtc_new.built
    /\ worker_returned = OutNone

\* the driver hands over an input once it has drained the outputs of the
\* earlier ones
WorkerReady == worker_queue = <<>> /\ PendingOutputs(worker_endpoints) = 0

\* every operation starts with no delivery made and no endpoint built
Fresh(w) == [w EXCEPT !.delivered = NoDelivery, !.built = NoBuilt]

\* the connect path of the server: spawn, then the answer goes to the caller
WorkerSpawn(variant, req) ==
    /\ WorkerReady
    /\ worker_spawned < MaxSpawns
    /\ SetWorker(MediaWorkerWebrtc_spawn(Fresh(SelfWorker), variant, req).worker)
    /\ worker_returned' = OutNone
    /\ last' = Last("spawn", req = "offer")

\* the backend answers a UdpListen it was given
WorkerUdpListenResult(ok) ==
    /\ WorkerReady
    /\ Len(worker_addrs) + Len(worker_queue) < Len(BindAddrs)
    /\ SetWorker(MediaWorkerWebrtc_on_udp_listen_result(
           Fresh(SelfWorker), BindAddrs[Len(worker_addrs) + 1], ok, Len(worker_addrs)))
    /\ worker_returned' = OutNone
    /\ last' = Last("udp_listen_result", ok)

WorkerUdpPacket(from, data) ==
    /\ WorkerReady
    /\ SetWorker(MediaWorkerWebrtc_on_udp_packet(Fresh(SelfWorker), from, data))
    /\ worker_returned' = OutNone
    /\ last' = Last("udp_packet", SharedUdpPort_map_remote(worker_shared_port, from, data).some)

WorkerCluster(owner) ==
    /\ WorkerReady
    /\ SetWorker(MediaWorkerWebrtc_on_cluster(Fresh(SelfWorker), owner, "event"))
    /\ worker_returned' = OutNone
    /\ last' = Last("cluster", Endpoints_has_task(worker_endpoints, owner))

WorkerExt(owner, ext) ==
    /\ WorkerReady
    /\ (~Endpoints_has_task(worker_endpoints, owner) /\ ext.ext = "RestartIce" /\ ext.req = "offer")
           => worker_spawned < MaxSpawns
    /\ SetWorker(MediaWorkerWebrtc_on_ext(Fresh(SelfWorker), owner, ext))
    /\ worker_returned' = OutNone
    /\ last' = Last(ext.ext, Endpoints_has_task(worker_endpoints, owner))

WorkerShutdown ==
    /\ WorkerReady
    /\ SetWorker(MediaWorkerWebrtc_shutdown(Fresh(SelfWorker)))
    /\ worker_returned' = OutNone
    /\ last' = Last("worker_shutdown", worker_shutdown)

\* pop_output with an output of the queue or of the endpoint of this index
WorkerPopOutput(index) ==
    LET popped == MediaWorkerWebrtc_pop_output(Fresh(SelfWorker), index)
    IN /\ popped.out # OutNone
       /\ SetWorker(popped.worker)
       /\ worker_returned' = popped.out
       /\ last' = Last("worker_pop", TRUE)

\* pop_output when neither the queue nor an endpoint has anything to give
WorkerPopNone ==
    /\ worker_queue = <<>>
    /\ \A i \in LiveSlots(worker_endpoints) : ~Endpoint_pop_output(worker_endpoints[i]).some
    /\ SetWorker(Fresh(SelfWorker))
    /\ worker_returned' = OutNone
    /\ last' = Last("worker_pop", FALSE)

(***************************************************************************)
(* ClusterRoomHash::generate (cluster.rs): std::hash::DefaultHasher, that  *)
(* is SipHash-1-3 with the key (0, 0), over the app id and the room name,  *)
(* each written as a str (its bytes, then 0xff).  A 64-bit word is the     *)
(* sequence of its 8 bytes, least significant first; a string is the       *)
(* sequence of its bytes.                                                  *)
(***************************************************************************)
BitXor(a, b, weight) == (((a \div weight) + (b \div weight)) % 2) * weight

\* a ^ b, of two bytes
ByteXor(a, b) ==
    BitXor(a, b, 1) + BitXor(a, b, 2) + BitXor(a, b, 4) + BitXor(a, b, 8)
    + BitXor(a, b, 16) + BitXor(a, b, 32) + BitXor(a, b, 64) + BitXor(a, b, 128)

\* a ^ b
WordXor(a, b) ==
    <<ByteXor(a[1], b[1]), ByteXor(a[2], b[2]), ByteXor(a[3], b[3]), ByteXor(a[4], b[4]),
      ByteXor(a[5], b[5]), ByteXor(a[6], b[6]), ByteXor(a[7], b[7]), ByteXor(a[8], b[8])>>

\* a.wrapping_add(b)
WordAdd(a, b) ==
    LET s1 == a[1] + b[1]
        s2 == a[2] + b[2] + (s1 \div 256)
        s3 == a[3] + b[3] + (s2 \div 256)
        s4 == a[4] + b[4] + (s3 \div 256)
        s5 == a[5] + b[5] + (s4 \div 256)
        s6 == a[6] + b[6] + (s5 \div 256)
        s7 == a[7] + b[7] + (s6 \div 256)
        s8 == a[8] + b[8] + (s7 \div 256)
    IN <<s1 % 256, s2 % 256, s3 % 256, s4 % 256, s5 % 256, s6 % 256, s7 % 256, s8 % 256>>

\* byte i of a word rotated left by whole bytes
RotByte(a, i, bytes) == a[((i - 1 - bytes + 8) % 8) + 1]

\* byte i of a.rotate_left(8 * bytes + bits)
RotlByte(a, i, bytes, weight) ==
    ((RotByte(a, i, bytes) * weight) % 256) + ((RotByte(a, i, bytes + 1) * weight) \div 256)

\* a.rotate_left(8 * bytes + bits), weight = 2^bits
WordRotl(a, bytes, weight) ==
    <<RotlByte(a, 1, bytes, weight), RotlByte(a, 2, bytes, weight),
      RotlByte(a, 3, bytes, weight), RotlByte(a, 4, bytes, weight),
      RotlByte(a, 5, bytes, weight), RotlByte(a, 6, bytes, weight),
      RotlByte(a, 7, bytes, weight), RotlByte(a, 8, bytes, weight)>>

\* the state of the hasher: v0..v3
SipState(v0, v1, v2, v3) == [v0 |-> v0, v1 |-> v1, v2 |-> v2, v3 |-> v3]

\* Sip13Rounds: one round, with the rotations by 13, 32, 16, 21, 17 and 32
SipRound(s) ==
    LET a0 == WordAdd(s.v0, s.v1)
        a1 == WordXor(WordRotl(s.v1, 1, 32), a0)
        b0 == WordRotl(a0, 4, 1)
        a2 == WordAdd(s.v2, s.v3)
        a3 == WordXor(WordRotl(s.v3, 2, 1), a2)
        c0 == WordAdd(b0, a3)
        c3 == WordXor(WordRotl(a3, 2, 32), c0)
        c2 == WordAdd(a2, a1)
        c1 == WordXor(WordRotl(a1, 2, 2), c2)
    IN SipState(c0, c1, WordRotl(c2, 4, 1), c3)

\* "somepseudorandomlygeneratedbytes", as four little-endian words
SipConst0 == <<117, 101, 115, 112, 101, 109, 111, 115>>
SipConst1 == <<109, 111, 100, 110, 97, 114, 111, 100>>
SipConst2 == <<97, 114, 101, 110, 101, 103, 121, 108>>
SipConst3 == <<115, 101, 116, 121, 98, 100, 101, 116>>

\* the key of DefaultHasher::new()
DefaultKey == <<0, 0, 0, 0, 0, 0, 0, 0>>

\* SipHasher13::new_with_keys
SipInit(k0, k1) ==
    SipState(WordXor(k0, SipConst0), WordXor(k1, SipConst1),
             WordXor(k0, SipConst2), WordXor(k1, SipConst3))

\* one 8-byte block: v3 ^= m, a round, v0 ^= m
SipCompress(s, m) ==
    LET r == SipRound([s EXCEPT !.v3 = WordXor(@, m)])
    IN [r EXCEPT !.v0 = WordXor(@, m)]

RECURSIVE Zeros(_)
Zeros(n) == IF n = 0 THEN <<>> ELSE <<0>> \o Zeros(n - 1)

\* Hasher::write of all the bytes, then Hasher::finish: the whole blocks,
\* then the rest with the length in the top byte, v2 ^= 0xff, three rounds
RECURSIVE SipBlocks(_, _, _)
SipBlocks(s, bytes, length) ==
    IF Len(bytes) >= 8
    THEN SipBlocks(SipCompress(s, SubSeq(bytes, 1, 8)), SubSeq(bytes, 9, Len(bytes)), length)
    ELSE LET b == bytes \o Zeros(7 - Len(bytes)) \o <<length % 256>>
             t == SipCompress(s, b)
             f == SipRound(SipRound(SipRound(
                      [t EXCEPT !.v2 = WordXor(@, <<255, 0, 0, 0, 0, 0, 0, 0>>)])))
         IN WordXor(WordXor(f.v0, f.v1), WordXor(f.v2, f.v3))

\* impl Hash for str: the bytes, then 0xff
StrHash(s) == s \o <<255>>

\* DefaultHasher, given everything written to it; the hash as the bytes of
\* the u64, least significant first
SipHash13(k0, k1, bytes) == SipBlocks(SipInit(k0, k1), bytes, Len(bytes))

\* variant: the app is not written to the hasher
ClusterRoomHash_generate_room_only(app, room) == SipHash13(DefaultKey, DefaultKey, StrHash(room))

\* ClusterRoomHash::generate
ClusterRoomHash_generate(app, room) == SipHash13(DefaultKey, DefaultKey, StrHash(app) \o StrHash(room))

\* the apps and the room of tests::multi_tenancy_room, as bytes: the root app
\* has the empty id
app_root == <<>>
app1 == <<97, 112, 112, 49>>
app2 == <<97, 112, 112, 50>>
same_room == <<115, 97, 109, 101, 95, 114, 111, 111, 109>>
room1 == <<114, 111, 111, 109, 49>>
AppIds == {app_root, app1, app2}
RoomIds == {same_room, room1, app1}

HashInit == generated = EmptyMap

\* a caller computes the hash of a room of an app
GenerateRoomHash(app, room) ==
    /\ generated' = MapInsert(generated, <<app, room>>, ClusterRoomHash_generate(app, room))
    /\ last' = Last("generate", <<app, room>> \in DOMAIN generated)
    /\ UNCHANGED <<pub_vars, hist_vars, cluster_vars, room_log, gateway_vars, worker_vars>>

Init == PublisherInit /\ ClusterInit /\ TraceInit /\ GatewayInit /\ WorkerInit /\ HashInit

(***************************************************************************)
(* History of the rooms: room_log[h] holds, in order, the inputs handed to *)
(* the latest room of hash h and the outputs pop_output returned for it.   *)
(* It starts again when a room of that hash is created.                    *)
(***************************************************************************)
TraceUnchanged == UNCHANGED room_log

IsInput(entry) == "input" \in DOMAIN entry

Inputs(log) == SelectSeq(log, IsInput)

Outputs(log) == SelectSeq(log, LAMBDA entry : ~IsInput(entry))

\* the driver has popped the outputs of the earlier inputs, and the room of
\* this hash has taken fewer than MaxRoomInputs inputs
RoomYoung(room_hash) ==
    /\ PendingOutputs(rooms) = 0
    /\ room_hash \in TracedRooms \cap DOMAIN rooms_map =>
           Len(Inputs(room_log[room_hash])) < MaxRoomInputs

RecordInput(room_hash, input) ==
    room_log' = [h \in TracedRooms |->
                    IF h # room_hash THEN room_log[h]
                    ELSE IF h \in DOMAIN rooms_map THEN Append(room_log[h], input)
                    ELSE <<input>>]

RecordSdn(room_hash, input) ==
    room_log' = [h \in TracedRooms |->
                    IF h = room_hash /\ h \in DOMAIN rooms_map
                    THEN Append(room_log[h], input)
                    ELSE room_log[h]]

RecordOutput(index) ==
    room_log' = [h \in TracedRooms |->
                    IF h = rooms[index + 1].room THEN Append(room_log[h], returned')
                    ELSE room_log[h]]

(***************************************************************************)
(* Specifications.                                                         *)
(***************************************************************************)
\* every operation of the publisher
Next ==
    \/ \E <<e, t>> \in Handles, p \in PeerIds, n \in TrackNames :
           OnTrackPublish(e, t, p, n) /\ HistUnchanged
    \/ \E <<e, t>> \in Handles : OnTrackUnpublish(e, t) /\ HistUnchanged
    \/ \E <<e, t>> \in Handles, m \in MediaPackets :
           OnTrackData(e, t, m) /\ HistUnchanged
    \/ \E c \in Channels, fb \in Feedbacks : OnTrackFeedback(c, fb) /\ HistUnchanged
    \/ PopOutput /\ HistUnchanged

Spec == Init /\ [][Next]_vars

\* every operation of the publisher, an input being handled once the
\* outputs of the earlier ones are drained
NextDrained ==
    \/ \E <<e, t>> \in Handles, p \in PeerIds, n \in TrackNames :
           Drained /\ OnTrackPublish(e, t, p, n) /\ HistUnchanged
    \/ \E <<e, t>> \in Handles : Drained /\ OnTrackUnpublish(e, t) /\ HistUnchanged
    \/ \E <<e, t>> \in Handles, m \in MediaPackets :
           Drained /\ OnTrackData(e, t, m) /\ HistUnchanged
    \/ \E c \in Channels, fb \in Feedbacks : Drained /\ OnTrackFeedback(c, fb) /\ HistUnchanged
    \/ PopOutput /\ HistUnchanged

SpecDrained == Init /\ [][NextDrained]_vars

\* publish / unpublish / data / pop
NextData ==
    \/ \E <<e, t>> \in Handles, p \in PeerIds, n \in TrackNames :
           OnTrackPublish(e, t, p, n) /\ HistUnchanged
    \/ \E <<e, t>> \in Handles : OnTrackUnpublish(e, t) /\ HistUnchanged
    \/ \E <<e, t>> \in Handles, m \in MediaPackets :
           OnTrackData(e, t, m) /\ HistUnchanged
    \/ PopOutput /\ HistUnchanged

SpecData == Init /\ [][NextData]_vars

\* publish / unpublish / feedback / pop, with the insertion order of the
\* sources recorded
NextFeedback ==
    \/ \E <<e, t>> \in Handles, p \in PeerIds, n \in TrackNames :
           Drained /\ OnTrackPublish(e, t, p, n) /\ RecordInsert(e, t, p, n)
    \/ \E <<e, t>> \in Handles :
           Drained /\ OnTrackUnpublish(e, t) /\ RecordRemove(e, t)
    \/ \E c \in Channels, fb \in Feedbacks :
           Drained /\ OnTrackFeedback(c, fb) /\ HistUnchanged
    \/ PopOutput /\ HistUnchanged

SpecFeedback == Init /\ [][NextFeedback]_vars

\* publish / unpublish / pop, with the calls and the PubStart / PubStop
\* they pushed recorded
NextHist ==
    \/ \E <<e, t>> \in Handles, p \in PeerIds, n \in TrackNames :
           OnTrackPublish(e, t, p, n) /\ RecordPublish(e, t, p, n)
    \/ \E <<e, t>> \in Handles :
           OnTrackUnpublish(e, t) /\ RecordUnpublish(e, t)
    \/ PopOutput /\ HistUnchanged

SpecHist == Init /\ [][NextHist]_vars

\* the cluster engine
NextCluster ==
    \/ \E e \in Endpoints, h \in RoomHashes : \E ctl \in Controls(e) :
           OnEndpointControl(e, h, ctl) /\ TraceUnchanged
    \/ \E h \in RoomHashes, ev \in SdnEvents : OnSdnEvent(h, ev) /\ TraceUnchanged
    \/ Shutdown /\ TraceUnchanged
    \/ \E i \in 0..(Cardinality(RoomHashes) - 1) : ClusterPopOutput(i) /\ TraceUnchanged
    \/ ClusterPopNone /\ TraceUnchanged

SpecCluster == Init /\ [][NextCluster]_vars

\* the cluster engine polled through its branch by a parent that drains it
BranchInput ==
    \/ \E e \in Endpoints, h \in RoomHashes : \E ctl \in Controls(e) :
           OnEndpointControl(e, h, ctl)
    \/ \E h \in RoomHashes, ev \in SdnEvents : OnSdnEvent(h, ev)
    \/ Shutdown

BranchPop ==
    \/ \E i \in 0..(Cardinality(RoomHashes) - 1) : BranchPopOutput(i) /\ TraceUnchanged
    \/ BranchPopNone /\ TraceUnchanged

NextBranch ==
    \/ Polled /\ BranchInput /\ TraceUnchanged
    \/ BranchPop

SpecBranch == Init /\ [][NextBranch]_vars /\ WF_vars(BranchPop)

\* the cluster engine with the inputs and outputs of each room recorded
NextTrace ==
    \/ \E e \in Endpoints, h \in RoomHashes : \E ctl \in ControlsMixer(e) :
           /\ RoomYoung(h)
           /\ OnEndpointControl(e, h, ctl)
           /\ RecordInput(h, RoomInputEndpoint(e, ctl))
    \/ \E h \in RoomHashes, ev \in SdnEvents :
           /\ RoomYoung(h)
           /\ OnSdnEvent(h, ev)
           /\ RecordSdn(h, RoomInputSdn(ev))
    \/ \E i \in 0..(Cardinality(RoomHashes) - 1) : ClusterPopOutput(i) /\ RecordOutput(i)
    \/ ClusterPopNone /\ TraceUnchanged

SpecTrace == Init /\ [][NextTrace]_vars

\* the gateway handler serving connect calls
NextGateway ==
    \/ \E c \in CallIds, m \in ConnectMethods : ConnectCall(c, m)
    \/ \E c \in CallIds : Send(c)
    \/ \E c \in CallIds, n \in Nodes \cup {NoNode} : Select(c, n)
    \/ \E c \in CallIds, ok \in BOOLEAN : ConnectResponse(c, ok)
    \/ Receive

SpecGateway == Init /\ [][NextGateway]_vars

\* the gateway handler serving calls that continue a session, next to
\* whip_connect calls
NextRelay ==
    \/ ConnectCall(1, "whip_connect")
    \/ \E c \in CallIds : Send(c)
    \/ \E c \in CallIds, n \in Nodes \cup {NoNode} : Select(c, n)
    \/ \E c \in CallIds, ok \in BOOLEAN : ConnectResponse(c, ok)
    \/ \E c \in CallIds, m \in RelayMethods, conn \in Conns : RelayCall(c, m, conn)
    \/ \E c \in CallIds, ok \in BOOLEAN : RelayResponse(c, ok)
    \/ Receive

SpecRelay == Init /\ [][NextRelay]_vars

(***************************************************************************)
(* The worker alone.                                                       *)
(***************************************************************************)
NextWorker ==
    \/ \E req \in Offers : WorkerSpawn("Whip", req)
    \/ \E ok \in BOOLEAN : WorkerUdpListenResult(ok)
    \/ \E from \in RemoteAddrs, data \in Datas : WorkerUdpPacket(from, data)
    \/ \E owner \in Sessions : WorkerCluster(owner)
    \/ \E owner \in Sessions, ext \in ExtIns : WorkerExt(owner, ext)
    \/ WorkerShutdown
    \/ \E index \in Sessions : WorkerPopOutput(index)
    \/ WorkerPopNone

SpecWorker == Init /\ [][NextWorker]_vars

(***************************************************************************)
(* The room hash alone.                                                    *)
(***************************************************************************)
NextHash == \E app \in AppIds, room \in RoomIds : GenerateRoomHash(app, room)

SpecHash == Init /\ [][NextHash]_vars

(***************************************************************************)
(* Properties of the publisher.                                            *)
(***************************************************************************)

\* C1: for every channel, PubStart and PubStop alternate starting with
\* PubStart, and the channel has sources exactly when the control pushed
\* for it most recently is a PubStart.
C1_SourcesIffStarted ==
    \A c \in Channels :
        /\ pub_start[c] - pub_stop[c] \in {0, 1}
        /\ (Sources(c) # <<>>) <=> (pub_start[c] = pub_stop[c] + 1)

C1_Witness ==
    \E c \in Channels : Sources(c) # <<>> /\ pub_stop[c] = 1 /\ pub_start[c] = 2

\* the calls on a channel began with publishes from two different endpoints
TwoPublishers(log) ==
    /\ Len(log) >= 2
    /\ log[1][1] = "publish"
    /\ log[2][1] = "publish"
    /\ log[1][2][1] # log[2][2][1]

\* C2: when two different endpoints publish the same (peer, name), exactly
\* one PubStart is pushed (by the first publish) and no PubStop until both
\* have unpublished; the second unpublish, in either order, pushes the one
\* PubStop.
C2_TwoPublishersOneStartOneStop ==
    \A c \in Channels :
        LET log == chan_log[c]
        IN /\ Len(log) = 1 => (pub_start[c] = 1 /\ pub_stop[c] = 0)
           /\ (TwoPublishers(log) /\ Len(log) <= 3) => (pub_start[c] = 1 /\ pub_stop[c] = 0)
           /\ (TwoPublishers(log) /\ Len(log) = 4
                   /\ log[3][1] = "unpublish" /\ log[4][1] = "unpublish")
                  => (pub_start[c] = 1 /\ pub_stop[c] = 1)

\* the second publisher unpublished first
C2_Witness ==
    \E c \in Channels :
        LET log == chan_log[c]
        IN /\ TwoPublishers(log)
           /\ Len(log) = 4
           /\ log[3] = <<"unpublish", log[2][2]>>
           /\ log[4] = <<"unpublish", log[1][2]>>
           /\ pub_stop[c] = 1
           /\ last.op = "unpublish"

\* C3: once every published handle has been unpublished, every channel
\* that got a PubStart has got its matching PubStop, and the two alternate.
C3_EveryStartStopped ==
    /\ \A c \in Channels : pub_start[c] - pub_stop[c] \in {0, 1}
    /\ (tracks = EmptyMap) => \A c \in Channels : pub_start[c] = pub_stop[c]

\* C4: once every published handle has been unpublished and the queue has
\* been popped empty, the publisher is empty and the assertions of Drop hold.
C4_EmptyAfterUnpublish ==
    (tracks = EmptyMap /\ queue = <<>>) => (is_empty(Self) /\ DropAssertions(Self))

\* C5: on_track_data for a registered handle appends exactly one
\* Pubsub(channel, PubData(serialize(packet))) at the back of the queue, the
\* channel being the one computed from the peer and name it was published
\* with, and changes neither index; pop_output takes from the front.
C5_DataQueuedInOrder ==
    [][/\ \A <<e, t>> \in Handles, m \in MediaPackets :
             (<<e, t>> \in DOMAIN tracks /\ OnTrackData(e, t, m)) =>
                 LET reg == tracks[<<e, t>>]
                 IN /\ reg[3] = gen_track_channel_id(PublisherRoom, reg[1], reg[2])
                    /\ queue' = Append(queue,
                                   OutPubsub(reg[3], PubData(MediaPacket_serialize(m))))
                    /\ UNCHANGED <<tracks, tracks_source, panicked>>
       /\ PopOutput => queue = <<Head(queue)>> \o queue'
      ]_vars

\* two packets of one track, queued in call order
C5_Witness ==
    /\ last = Last("data", TRUE)
    /\ \E c \in Channels, m1, m2 \in MediaPackets :
           /\ m1.seq < m2.seq
           /\ Cardinality({h \in DOMAIN tracks : tracks[h][3] = c}) = 1
           /\ queue = <<OutPubsub(c, PubData(MediaPacket_serialize(m1))),
                        OutPubsub(c, PubData(MediaPacket_serialize(m2)))>>

\* C6: on_track_data for a handle that is not registered changes nothing.
C6_DataForMissingTrackDropped ==
    [][\A <<e, t>> \in Handles, m \in MediaPackets :
           (<<e, t>> \notin DOMAIN tracks /\ OnTrackData(e, t, m)) =>
               UNCHANGED <<tracks, tracks_source, queue, panicked>>
      ]_vars

\* a late packet: sources and pending outputs exist, the handle does not
C6_Witness ==
    /\ last = Last("data", FALSE)
    /\ tracks # EmptyMap
    /\ queue # <<>>

\* the event kind on_track_feedback sends for a feedback kind
EventOfKind(kind) == IF kind = 0 THEN "LimitBitrate" ELSE "RequestKeyFrame"

\* `after` is `before` followed by one event of feedback `fb` per source
\* of `srcs`, in that order, each addressed to that source alone
FannedOut(before, after, srcs, fb) ==
    /\ Len(after) = Len(before) + Len(srcs)
    /\ SubSeq(after, 1, Len(before)) = before
    /\ \A i \in 1..Len(srcs) :
           LET o == after[Len(before) + i]
           IN /\ o.out = "Endpoint"
              /\ o.endpoints = <<srcs[i][1]>>
              /\ o.track = srcs[i][2]
              /\ o.event.ev = EventOfKind(fb.kind)

\* C7 as claimed: a feedback of a known kind pushes one event per source
\* of the channel in the order the sources were inserted.
C7_InsertionOrder ==
    [][\A c \in Channels, fb \in Feedbacks :
           (fb.kind \in {0, 1} /\ OnTrackFeedback(c, fb)) =>
               /\ FannedOut(queue, queue', inserted[c], fb)
               /\ UNCHANGED <<tracks, tracks_source>>
      ]_vars

\* C7: a feedback of a known kind pushes one event per source of the
\* channel, addressed to that endpoint and track alone, in the order the
\* IndexSet tracks_source[channel] holds them now; none for a channel
\* without sources; the indexes do not change.
C7_IndexSetOrder ==
    [][\A c \in Channels, fb \in Feedbacks :
           (fb.kind \in {0, 1} /\ OnTrackFeedback(c, fb)) =>
               /\ FannedOut(queue, queue', Sources(c), fb)
               /\ UNCHANGED <<tracks, tracks_source, panicked>>
      ]_vars

\* a feedback fanned out to sources an unpublish has reordered
C7_Witness ==
    /\ last = Last("feedback", TRUE)
    /\ \E c \in Channels, fb \in Feedbacks :
           /\ Len(Sources(c)) >= 2
           /\ Sources(c) # inserted[c]
           /\ fb.kind \in {0, 1}
           /\ FannedOut(<<>>, queue, Sources(c), fb)

\* C8: a feedback whose kind is neither 0 nor 1 changes nothing.
C8_UnknownKindIgnored ==
    [][\A c \in Channels, fb \in Feedbacks :
           (fb.kind \notin {0, 1} /\ OnTrackFeedback(c, fb)) =>
               UNCHANGED <<tracks, tracks_source, queue, panicked>>
      ]_vars

\* an unknown kind arrived while every channel had sources
C8_Witness ==
    /\ last = Last("feedback", FALSE)
    /\ \A c \in Channels : Sources(c) # <<>>

\* the channel's only source is endpoint 2, track 3
OnlySource23(c) == Sources(c) = <<<<2, 3>>>>

\* C9 as claimed: a kind-0 feedback of value 1000 whose min is 100 and max
\* is 200 yields LimitBitrate{min: 1000, max: 1000}.
C9_LimitFromValue ==
    [][\A c \in Channels :
           (OnlySource23(c) /\ OnTrackFeedback(c, FeedbackRange(0, 1000, 100, 200))) =>
               queue' = Append(queue, OutEndpoint(<<2>>, 3, LimitBitrate(1000, 1000)))
      ]_vars

\* C9: a kind-0 feedback yields LimitBitrate carrying the feedback's min and
\* max fields; Feedback::simple(0, 1000, 100, 200) has both equal to 1000
\* and yields LimitBitrate{min: 1000, max: 1000}.
C9_LimitFromMinMax ==
    [][\A c \in Channels, fb \in Feedbacks :
           (fb.kind = 0 /\ OnlySource23(c) /\ OnTrackFeedback(c, fb)) =>
               /\ queue' = Append(queue, OutEndpoint(<<2>>, 3, LimitBitrate(fb.min, fb.max)))
               /\ fb = FeedbackSimple(0, 1000, 100, 200) =>
                      queue' = Append(queue, OutEndpoint(<<2>>, 3, LimitBitrate(1000, 1000)))
      ]_vars

C9_Witness ==
    /\ last = Last("feedback", TRUE)
    /\ \E c \in Channels : OnlySource23(c)
    /\ queue = <<OutEndpoint(<<2>>, 3, LimitBitrate(1000, 1000))>>

(***************************************************************************)
(* Properties of the cluster engine.                                       *)
(***************************************************************************)
RoomsOf(tasks, room_hash) == {i \in LiveSlots(tasks) : tasks[i].room = room_hash}

\* the rooms other than the one in this slot are left as they were
OtherRoomsKept(slot) ==
    \A i \in LiveSlots(rooms) \ {slot} : i \in LiveSlots(rooms') /\ rooms'[i] = rooms[i]

CreatedAndDispatched(endpoint, room_hash, control) ==
    /\ DOMAIN rooms_map' = DOMAIN rooms_map \cup {room_hash}
    /\ \A h \in DOMAIN rooms_map : rooms_map'[h] = rooms_map[h]
    /\ LiveSlots(rooms') = LiveSlots(rooms) \cup {rooms_map'[room_hash] + 1}
    /\ rooms_map'[room_hash] + 1 \notin LiveSlots(rooms)
    /\ rooms'[rooms_map'[room_hash] + 1] =
           Room_on_event(Room_new(room_hash), RoomInputEndpoint(endpoint, control))
    /\ OtherRoomsKept(rooms_map'[room_hash] + 1)

DispatchedToExisting(endpoint, room_hash, control) ==
    /\ rooms_map' = rooms_map
    /\ LiveSlots(rooms') = LiveSlots(rooms)
    /\ rooms'[rooms_map[room_hash] + 1] =
           Room_on_event(rooms[rooms_map[room_hash] + 1], RoomInputEndpoint(endpoint, control))
    /\ OtherRoomsKept(rooms_map[room_hash] + 1)

\* C10: on_endpoint_control for a room hash without a registered room makes
\* exactly one new room, records hash -> index in rooms_map and hands the
\* control to that room; for a hash with a room it hands the control to that
\* room and makes no room.  At every time each room hash has at most one room.
C10_LazyRoomCreation ==
    /\ [](\A h \in RoomHashes : Cardinality(RoomsOf(rooms, h)) <= 1)
    /\ [][\A e \in Endpoints, h \in RoomHashes : \A ctl \in Controls(e) :
            OnEndpointControl(e, h, ctl) =>
                IF h \in DOMAIN rooms_map
                THEN DispatchedToExisting(e, h, ctl)
                ELSE CreatedAndDispatched(e, h, ctl)]_vars

\* a control reached an existing room while both room hashes have a room
C10_Witness ==
    /\ last = Last("control", TRUE)
    /\ \A h \in RoomHashes : Cardinality(RoomsOf(rooms, h)) = 1
    /\ \E i \in LiveSlots(rooms) : DOMAIN rooms[i].peers = Endpoints

\* what pop_output could hand out, per room
Available(tasks) == [i \in LiveSlots(tasks) |-> Room_pop_output(tasks[i]).out]

\* C11: on_sdn_event for a room hash without a registered room changes
\* nothing: no room is made, no room changes, no output becomes available.
\* For a hash with a room the event goes to that room and to no other.
C11_SdnEventUnknownRoomNoOp ==
    [][\A h \in RoomHashes, ev \in SdnEvents :
        OnSdnEvent(h, ev) =>
            IF h \notin DOMAIN rooms_map
            THEN /\ rooms_map' = rooms_map
                 /\ rooms' = rooms
                 /\ shutdown' = shutdown
                 /\ Available(rooms') = Available(rooms)
            ELSE /\ rooms_map' = rooms_map
                 /\ LiveSlots(rooms') = LiveSlots(rooms)
                 /\ rooms'[rooms_map[h] + 1] = Room_on_sdn(rooms[rooms_map[h] + 1], ev)
                 /\ OtherRoomsKept(rooms_map[h] + 1)]_vars

\* an event for an unknown room arrived while the other room has a
\* subscriber of peers
C11_Witness ==
    /\ last = Last("sdn", FALSE)
    /\ \E i \in LiveSlots(rooms) :
          \E e \in DOMAIN rooms[i].peers : rooms[i].peers[e].subscribe.peers

\* C12: when the polled room gives OnResourceEmpty(room_hash), pop_output
\* takes that hash out of rooms_map and that room out of the task group and
\* returns Continue; a Sdn output is returned as Sdn and an Endpoint output
\* as Endpoint, with the same payload, and the registry is left alone.
C12_PopOutputReapsEmptyRoom ==
    [][\A i \in 0..(Cardinality(RoomHashes) - 1) :
        ClusterPopOutput(i) =>
            LET out == Room_pop_output(rooms[i + 1]).out
            IN IF out.out = "OnResourceEmpty"
               THEN /\ returned' = OutContinue
                    /\ DOMAIN rooms_map' = DOMAIN rooms_map \ {out.room}
                    /\ \A h \in DOMAIN rooms_map' : rooms_map'[h] = rooms_map[h]
                    /\ LiveSlots(rooms') = LiveSlots(rooms) \ {i + 1}
                    /\ OtherRoomsKept(i + 1)
                    /\ ~cluster_panicked'
               ELSE /\ rooms_map' = rooms_map
                    /\ LiveSlots(rooms') = LiveSlots(rooms)
                    /\ rooms'[i + 1] = [rooms[i + 1] EXCEPT !.queue = Tail(@)]
                    /\ OtherRoomsKept(i + 1)
                    /\ out.out = "Sdn" =>
                          returned' = ClusterOutSdn(out.room, out.map, out.cmd, out.key)
                    /\ out.out = "Endpoint" =>
                          returned' = ClusterOutEndpoint(out.endpoints, out.ev, out.peer)
                    /\ out.out \in {"Sdn", "Endpoint"}]_vars

\* a room was reaped while the other room stays registered
C12_Witness ==
    /\ last = Last("cluster_pop", TRUE)
    /\ returned = OutContinue
    /\ Cardinality(DOMAIN rooms_map) = 1
    /\ TaskGroup_tasks(rooms) = 1

(***************************************************************************)
(* Properties of the recorded inputs and outputs of a room.                *)
(***************************************************************************)
IsPrefix(s, t) == Len(s) <= Len(t) /\ SubSeq(t, 1, Len(s)) = s

\* the position of the last input of a log that has one
LastInput(log) == CHOOSE i \in 1..Len(log) : IsInput(log[i]) /\ \A j \in (i + 1)..Len(log) : ~IsInput(log[j])

\* the outputs returned after the last input
SinceLastInput(log) == SubSeq(log, LastInput(log) + 1, Len(log))

\* what the engine returns for a Leave after a Join with this scope, the
\* room having no other peer
LeaveOutputs(room, peer, scope) ==
    OutIf(scope.publish.peer, ClusterOutSdn(room, peers_map(room), "Del", peer))
    \o OutIf(scope.subscribe.peers, ClusterOutSdn(room, peers_map(room), "Unsub", ""))
    \o OutIf(scope.subscribe.tracks, ClusterOutSdn(room, tracks_map(room), "Unsub", ""))
    \o <<OutContinue>>

\* the room of this hash still has an output to give
HasOutput(room_hash) == \E i \in RoomsOf(rooms, room_hash) : Room_pop_output(rooms[i]).some

\* C13: an endpoint joins a fresh room with publish.peer and subscribe.peers
\* and then leaves: the Leave yields Del(peers_key) and Unsub on the peers
\* map (and the Unsub of the tracks map if it had subscribed to tracks), then
\* Continue, then nothing; after Continue the room is gone from the task
\* group and from rooms_map, and an engine that had no other room has zero
\* rooms registered and zero rooms in the task group, as before the Join.
C13_JoinLeaveRoundTrip ==
    \A h \in TracedRooms, e \in Endpoints, sc \in JoinScopes :
        (/\ sc.publish.peer /\ sc.subscribe.peers
         /\ Inputs(room_log[h]) = <<RoomInputEndpoint(e, ControlJoin(PeerOf(e), sc)),
                                    RoomInputEndpoint(e, ControlLeave)>>)
        => LET got == SinceLastInput(room_log[h])
               expected == LeaveOutputs(h, PeerOf(e), sc)
           IN /\ IsPrefix(got, expected)
              /\ got # expected => HasOutput(h)
              /\ got = expected =>
                    /\ ~HasOutput(h)
                    /\ RoomsOf(rooms, h) = {}
                    /\ h \notin DOMAIN rooms_map
                    /\ DOMAIN rooms_map \subseteq {h} =>
                          /\ rooms_map = MediaCluster_default.rooms_map
                          /\ TaskGroup_tasks(rooms) = 0

\* endpoint 1 joined a fresh room as in room_manager_should_work, left, and
\* Set, Sub, Del, Unsub, Continue and None were returned
C13_Witness ==
    /\ room_log[1] =
          << RoomInputEndpoint(1, ControlJoin("peer1", Scope(TRUE, FALSE, TRUE, FALSE))),
             ClusterOutSdn(1, peers_map(1), "Set", "peer1"),
             ClusterOutSdn(1, peers_map(1), "Sub", ""),
             RoomInputEndpoint(1, ControlLeave),
             ClusterOutSdn(1, peers_map(1), "Del", "peer1"),
             ClusterOutSdn(1, peers_map(1), "Unsub", ""),
             OutContinue >>
    /\ last = Last("cluster_pop", FALSE)
    /\ rooms_map = MediaCluster_default.rooms_map
    /\ TaskGroup_tasks(rooms) = 0

\* what the engine returns for a Join, in order
JoinOutputs(room, control) ==
    OutIf(control.publish.peer, ClusterOutSdn(room, peers_map(room), "Set", control.peer))
    \o OutIf(control.subscribe.peers, ClusterOutSdn(room, peers_map(room), "Sub", ""))
    \o OutIf(control.subscribe.tracks, ClusterOutSdn(room, tracks_map(room), "Sub", ""))
    \o OutIf(control.mixer, ClusterOutSdn(room, mixer_channel(room), "Attach", ""))

LastInputOf(log) == log[LastInput(log)]

\* C14: the outputs of one Join come in the order publisher-peer Set, peers
\* Sub, tracks Sub, mixer attach, each one present exactly when its flag or
\* config is set, and nothing follows them; a Join with publish = {peer} and
\* subscribe = {peers} gives Set(peers_map, peers_key(peer)), Sub(peers_map),
\* then None.
C14_JoinOutputOrder ==
    \A h \in TracedRooms :
        (/\ room_log[h] # <<>>
         /\ LastInputOf(room_log[h]).input = "Endpoint"
         /\ LastInputOf(room_log[h]).data.ctl = "Join")
        => LET got == SinceLastInput(room_log[h])
               expected == JoinOutputs(h, LastInputOf(room_log[h]).data)
           IN /\ IsPrefix(got, expected)
              /\ got # expected <=> HasOutput(h)

\* endpoint 1 joined as in room_manager_should_work and got Set, Sub; then
\* endpoint 2 joined with every scope and a mixer and got all four; then None
C14_Witness ==
    /\ room_log[1] =
          << RoomInputEndpoint(1, ControlJoin("peer1", Scope(TRUE, FALSE, TRUE, FALSE))),
             ClusterOutSdn(1, peers_map(1), "Set", "peer1"),
             ClusterOutSdn(1, peers_map(1), "Sub", ""),
             RoomInputEndpoint(2, ControlJoinMixer("peer2", Scope(TRUE, TRUE, TRUE, TRUE))),
             ClusterOutSdn(1, peers_map(1), "Set", "peer2"),
             ClusterOutSdn(1, peers_map(1), "Sub", ""),
             ClusterOutSdn(1, tracks_map(1), "Sub", ""),
             ClusterOutSdn(1, mixer_channel(1), "Attach", "") >>
    /\ last = Last("cluster_pop", FALSE)

\* the endpoints that are joined to this room with subscribe.peers
PeerSubscribers(r) == {e \in Endpoints : e \in DOMAIN r.peers /\ r.peers[e].subscribe.peers}

PeerEventOf(event) == IF event.ev = "OnSet" THEN "PeerJoined" ELSE "PeerLeaved"

\* C15: an OnSet (OnDel) of the peers map handed to on_sdn_event yields one
\* PeerJoined (PeerLeaved) for the endpoints of that room that are joined with
\* subscribe.peers and for no other endpoint: not for one that left, that did
\* not subscribe to peers, or that is in another room; pop_output returns it
\* with that list of endpoints.
C15_PeerEventFanOut ==
    /\ [][\A h \in RoomHashes, ev \in SdnEvents :
            (OnSdnEvent(h, ev) /\ h \in DOMAIN rooms_map) =>
                LET slot == rooms_map[h] + 1
                    subscribers == PeerSubscribers(rooms[slot])
                IN /\ rooms'[slot].queue =
                         rooms[slot].queue
                         \o OutIf(subscribers # {}, RoomEndpoint(subscribers, PeerEventOf(ev), ev.peer))
                   /\ rooms'[slot].peers = rooms[slot].peers
                   /\ OtherRoomsKept(slot)]_vars
    /\ [][\A i \in 0..(Cardinality(RoomHashes) - 1) :
            (ClusterPopOutput(i) /\ Room_pop_output(rooms[i + 1]).out.out = "Endpoint") =>
                LET out == Head(rooms[i + 1].queue)
                IN returned' = ClusterOutEndpoint(out.endpoints, out.ev, out.peer)]_vars

\* PeerJoined was returned for endpoint 1 alone, while endpoint 2 is in the
\* same room without subscribe.peers and the other room has a subscriber
C15_Witness ==
    /\ returned = ClusterOutEndpoint({1}, "PeerJoined", "peer1")
    /\ \E i, j \in LiveSlots(rooms) :
          /\ i # j
          /\ DOMAIN rooms[i].peers = {1, 2}
          /\ PeerSubscribers(rooms[i]) = {1}
          /\ PeerSubscribers(rooms[j]) # {}
          /\ rooms_map[rooms[i].room] + 1 = i

IsControlOf(entry, endpoint) ==
    IsInput(entry) /\ entry.input = "Endpoint" /\ entry.endpoint = endpoint

\* the endpoints whose last control in the log is a Join
JoinedNow(log) ==
    {e \in Endpoints :
        \E i \in 1..Len(log) :
            /\ IsControlOf(log[i], e)
            /\ log[i].data.ctl = "Join"
            /\ \A j \in (i + 1)..Len(log) : ~IsControlOf(log[j], e)}

\* C16: once the inputs of a room end with all of its peers having left, the
\* room has a last output to give, the engine returns Continue for it once,
\* as the last thing it returns for that room, and then nothing: the room is
\* gone.  Continue is never returned for a room that still has a peer.
C16_TerminalOnResourceEmpty ==
    \A h \in TracedRooms :
        LET log == room_log[h]
            ended == log # <<>> /\ log[Len(log)] = OutContinue
        IN /\ \A i \in 1..Len(log) : log[i] = OutContinue => i = Len(log)
           /\ ended => /\ JoinedNow(log) = {}
                       /\ RoomsOf(rooms, h) = {}
                       /\ ~HasOutput(h)
           /\ (log # <<>> /\ ~ended) => /\ Cardinality(RoomsOf(rooms, h)) = 1
                                        /\ JoinedNow(log) = {} => HasOutput(h)

\* endpoint 2 joined with no scope and left; Continue, then None
C16_Witness ==
    /\ room_log[1] =
          << RoomInputEndpoint(2, ControlJoin("peer2", Scope(FALSE, FALSE, FALSE, FALSE))),
             RoomInputEndpoint(2, ControlLeave),
             OutContinue >>
    /\ last = Last("cluster_pop", FALSE)
    /\ returned = OutNone

\* C17: is_empty() holds exactly when shutdown was requested and no room is
\* registered: it is false before shutdown, also with zero rooms, and false
\* while a room remains, also after shutdown.
C17_EmptyIffShutdownAndNoRooms ==
    /\ MediaCluster_is_empty(SelfCluster) <=> (shutdown /\ DOMAIN rooms_map = {})
    /\ ~shutdown => ~MediaCluster_is_empty(SelfCluster)
    /\ (\E h \in RoomHashes : RoomsOf(rooms, h) # {}) => ~MediaCluster_is_empty(SelfCluster)

\* after shutdown the last room was reaped and the engine is empty
C17_Witness ==
    /\ MediaCluster_is_empty(SelfCluster)
    /\ shutdown
    /\ last = Last("cluster_pop", TRUE)
    /\ returned = OutContinue

\* C18: the first shutdown hands on_shutdown to the rooms once and sets the
\* flag; a later shutdown changes nothing and hands nothing to the rooms; the
\* flag, once set, stays set.
C18_ShutdownIdempotent ==
    /\ [](shutdown_broadcasts = IF shutdown THEN 1 ELSE 0)
    /\ [][shutdown => shutdown']_vars
    /\ [][Shutdown =>
            IF shutdown
            THEN UNCHANGED <<rooms_map, rooms, shutdown, cluster_panicked, shutdown_broadcasts>>
            ELSE /\ shutdown'
                 /\ shutdown_broadcasts' = shutdown_broadcasts + 1
                 /\ rooms' = TaskGroup_on_shutdown(rooms)
                 /\ UNCHANGED <<rooms_map, cluster_panicked>>]_vars

\* shutdown was called again while a room with a peer exists
C18_Witness ==
    /\ last = Last("shutdown", TRUE)
    /\ shutdown
    /\ \E i \in LiveSlots(rooms) : rooms[i].peers # EmptyMap

(***************************************************************************)
(* Properties of the gateway handler.                                      *)
(***************************************************************************)
IsConnect(call) == call.method \in ConnectMethods

\* the steps of a session route: Init (RouteBegin about to be sent),
\* Selecting, Routing, a terminal event about to be sent, terminated
RouteEdges ==
    {<<"Idle", "SendBegin">>, <<"Done", "SendBegin">>, <<"SendBegin", "Selecting">>,
     <<"Selecting", "Routing">>, <<"Selecting", "SendTerminal">>,
     <<"Routing", "SendTerminal">>, <<"SendTerminal", "Done">>}

IsTerminalEvent(ev) == ev.event.event \in {"RouteSuccess", "RouteError"}

IsBeginOf(ev, call) ==
    ev = PeerEvent(AppOf(call.app), call.session_id, RouteBegin(RemoteIpOf(call.method)))

IsTerminalOf(ev, call) ==
    /\ IsTerminalEvent(ev)
    /\ ev.app = AppOf(call.app)
    /\ ev.session_id = call.session_id

\* C19: a connect call goes Init -> Selecting -> Failed(PoolEmpty), or
\* -> Routing -> Success or Failed(Timeout), and ends there: RouteBegin is its
\* first event, it selects a node once, forwards at most one RPC, never
\* selects or forwards again, and ends with exactly one RouteSuccess or
\* RouteError carrying the app and session id of its RouteBegin.
C19_ConnectRouteStateMachine ==
    /\ [](\A c \in CallIds :
            LET call == gw_calls[c]
            IN IsConnect(call) =>
                  /\ call.pc = "SendBegin" =>
                        call.events = <<>> /\ call.selects = 0 /\ call.rpcs = <<>>
                  /\ call.pc = "Selecting" =>
                        /\ Len(call.events) = 1 /\ IsBeginOf(call.events[1], call)
                        /\ call.selects = 0 /\ call.rpcs = <<>>
                  /\ call.pc = "Routing" =>
                        /\ Len(call.events) = 1 /\ IsBeginOf(call.events[1], call)
                        /\ call.selects = 1 /\ Len(call.rpcs) = 1
                  /\ call.pc = "SendTerminal" =>
                        /\ Len(call.events) = 1 /\ IsBeginOf(call.events[1], call)
                        /\ call.selects = 1 /\ Len(call.rpcs) <= 1
                        /\ IsTerminalOf(call.pending, call)
                  /\ call.pc = "Done" =>
                        /\ Len(call.events) = 2 /\ IsBeginOf(call.events[1], call)
                        /\ IsTerminalOf(call.events[2], call)
                        /\ call.selects = 1 /\ Len(call.rpcs) <= 1)
    /\ [][\A c \in CallIds :
            (IsConnect(gw_calls'[c]) /\ gw_calls'[c].pc # gw_calls[c].pc) =>
                <<gw_calls[c].pc, gw_calls'[c].pc>> \in RouteEdges]_vars

\* a whip_connect ended with RouteSuccess and an rtp_engine_create_answer
\* with RouteError
C19_Witness ==
    /\ gw_calls[1].pc = "Done" /\ gw_calls[1].method = "whip_connect"
    /\ gw_calls[1].events[2].event.event = "RouteSuccess"
    /\ gw_calls[2].pc = "Done" /\ gw_calls[2].method = "rtp_engine_create_answer"
    /\ gw_calls[2].events[2].event = RouteError(20, "Timeout")

PoolEmptyOf(call) ==
    PeerEvent(AppOf(call.app), call.session_id, RouteError(NoNode, "PoolEmpty"))

\* C20: when the selector has no node for a connect call, the call emits
\* RouteBegin, then RouteError with error PoolEmpty and no dest_node,
\* forwards no RPC and returns an empty response.
C20_PoolEmpty ==
    /\ [][\A c \in CallIds :
            Select(c, NoNode) =>
                /\ gw_calls'[c].pending = PoolEmptyOf(gw_calls[c])
                /\ gw_calls'[c].rpcs = <<>>
                /\ gw_calls'[c].result = NoResponse
                /\ gw_calls'[c].events = gw_calls[c].events]_vars
    /\ [](\A c \in CallIds :
            LET call == gw_calls[c]
            IN (IsConnect(call) /\ call.pc = "Done" /\ call.node = NoNode) =>
                  /\ call.events = <<feedback_route_begin(AppOf(call.app), call.session_id,
                                                          RemoteIpOf(call.method)),
                                     PoolEmptyOf(call)>>
                  /\ call.rpcs = <<>>
                  /\ ~call.result.some)

\* a webrtc_connect found the pool empty and returned
C20_Witness ==
    /\ gw_calls[2].pc = "Done" /\ gw_calls[2].method = "webrtc_connect"
    /\ gw_calls[2].selects = 1
    /\ gw_calls[2].events[2].event.error = "PoolEmpty"
    /\ gw_calls[1].pc = "Routing"

TerminalEvents(call) == SelectSeq(call.events, IsTerminalEvent)

\* C21: a connect call for which the selector returned node n returns the
\* downstream response and emits RouteSuccess{dest_node = n} exactly when the
\* RPC to n produced a response; otherwise it emits
\* RouteError{error = Timeout, dest_node = n} and returns an empty response.
\* No call emits both RouteSuccess and RouteError.
C21_SuccessIffDownstreamResponse ==
    /\ [][\A c \in CallIds, ok \in BOOLEAN :
            ConnectResponse(c, ok) =>
                LET call == gw_calls[c]
                    after == gw_calls'[c]
                IN /\ call.node \in Nodes
                   /\ call.rpcs = <<[method |-> call.method, node |-> call.node]>>
                   /\ after.rpcs = call.rpcs
                   /\ ok => /\ after.pending = PeerEvent(AppOf(call.app), call.session_id,
                                                         RouteSuccess(call.node))
                            /\ after.result = ResponseOf(call.node)
                   /\ ~ok => /\ after.pending = PeerEvent(AppOf(call.app), call.session_id,
                                                          RouteError(call.node, "Timeout"))
                             /\ after.result = NoResponse]_vars
    /\ [](\A c \in CallIds :
            LET call == gw_calls[c]
            IN (IsConnect(call) /\ call.pc = "Done" /\ call.node # NoNode) =>
                  /\ Len(TerminalEvents(call)) = 1
                  /\ call.result.some <=>
                        TerminalEvents(call)[1].event = RouteSuccess(call.node)
                  /\ ~call.result.some <=>
                        TerminalEvents(call)[1].event = RouteError(call.node, "Timeout")
                  /\ call.result.some => call.result = ResponseOf(call.node))

\* one whep_connect ended with a timeout of node 10, the other with the
\* response of node 20
C21_Witness ==
    /\ gw_calls[1].pc = "Done" /\ gw_calls[1].method = "whep_connect"
    /\ gw_calls[1].events[2].event = RouteError(10, "Timeout")
    /\ gw_calls[1].result = NoResponse
    /\ gw_calls[2].pc = "Done" /\ gw_calls[2].method = "whep_connect"
    /\ gw_calls[2].events[2].event = RouteSuccess(20)
    /\ gw_calls[2].result = ResponseOf(20)

\* C22: a call that continues a session (remote_ice, close, restart_ice,
\* set_answer, delete) sends nothing to the telemetry channel and asks the
\* selector nothing; it relays one RPC to the node of the request's conn id,
\* and when the conn id does not parse it returns an empty response and
\* relays nothing.
C22_RelayWithoutTelemetry ==
    /\ [][\A c \in CallIds, m \in RelayMethods, conn \in Conns :
            (gw_calls'[c].method = m /\ Free(c) /\ RelayCall(c, m, conn)) =>
                LET after == gw_calls'[c]
                IN /\ connector_agent_tx' = connector_agent_tx
                   /\ after.events = <<>> /\ after.pending = NoEvent /\ after.selects = 0
                   /\ conn.valid => /\ after.pc = "Relaying"
                                    /\ after.rpcs = <<[method |-> m, node |-> conn.node]>>
                   /\ ~conn.valid => /\ after.pc = "Done"
                                     /\ after.rpcs = <<>>
                                     /\ after.result = NoResponse]_vars
    /\ [][\A c \in CallIds, ok \in BOOLEAN :
            (gw_calls[c].pc = "Relaying" /\ RelayResponse(c, ok)) =>
                /\ connector_agent_tx' = connector_agent_tx
                /\ gw_calls'[c].pc = "Done"
                /\ gw_calls'[c].rpcs = gw_calls[c].rpcs
                /\ gw_calls'[c].result = IF ok THEN ResponseOf(gw_calls[c].node) ELSE NoResponse]_vars
    /\ [](\A c \in CallIds :
            gw_calls[c].method \in RelayMethods =>
                /\ gw_calls[c].events = <<>>
                /\ gw_calls[c].pending = NoEvent
                /\ gw_calls[c].selects = 0
                /\ Len(gw_calls[c].rpcs) <= 1
                /\ gw_calls[c].pc \in {"Relaying", "Done"})

\* a webrtc_restart_ice was relayed to node 20 and answered; an
\* rtp_engine_delete with a conn id that does not parse returned
C22_Witness ==
    /\ gw_calls[1].pc = "Done" /\ gw_calls[1].method = "webrtc_restart_ice"
    /\ gw_calls[1].rpcs = <<[method |-> "webrtc_restart_ice", node |-> 20]>>
    /\ gw_calls[1].result = ResponseOf(20)
    /\ gw_calls[2].pc = "Done" /\ gw_calls[2].method = "rtp_engine_delete"
    /\ gw_calls[2].rpcs = <<>>

(***************************************************************************)
(* Properties of the worker.                                               *)
(***************************************************************************)
NotFoundResponse(owner, ext) ==
    GroupOutExt(owner, ExtOut(ext.ext, ext.req_id, ext.variant, ResErr(RpcEndpointNotFound)))

\* the endpoints other than the one of this index are as they were
OtherEndpointsKept(index) ==
    /\ Len(worker_endpoints') = Len(worker_endpoints)
    /\ \A i \in 1..Len(worker_endpoints) : i # index + 1 => worker_endpoints'[i] = worker_endpoints[i]

\* C23: an Ext RemoteIce or Disconnect for a session without a live endpoint
\* enqueues exactly one response, Err(RpcEndpointNotFound) with the req_id
\* and variant of the request and addressed to the session of the request,
\* and leaves the endpoints and the demux as they were; for a session with a
\* live endpoint the input is handed to that endpoint and the worker
\* enqueues nothing.
C23_ExtToAbsentEndpoint ==
    [][\A owner \in Sessions, ext \in ExtIns :
          (/\ ext.ext \in {"RemoteIce", "Disconnect"}
           /\ last'.op = ext.ext
           /\ WorkerExt(owner, ext))
          => IF ~Endpoints_has_task(worker_endpoints, owner)
             THEN /\ worker_queue' = Append(worker_queue, NotFoundResponse(owner, ext))
                  /\ worker_endpoints' = worker_endpoints
                  /\ worker_shared_port' = worker_shared_port
                  /\ worker_delivered' = NoDelivery
             ELSE /\ worker_queue' = worker_queue
                  /\ worker_delivered' =
                         Delivery(worker_endpoints[owner + 1].id, owner, EndpointInputExt(ext))
                  /\ worker_endpoints'[owner + 1] =
                         Endpoint_on_event(worker_endpoints[owner + 1], EndpointInputExt(ext))
                  /\ OtherEndpointsKept(owner)]_vars

\* a Disconnect for a vacant session was refused while another session is live
C23_Witness ==
    /\ last = Last("Disconnect", FALSE)
    /\ Len(worker_queue) = 1
    /\ worker_queue[1].output = "Ext"
    /\ worker_queue[1].ext.res = ResErr(RpcEndpointNotFound)
    /\ TaskGroup_tasks(worker_endpoints) > 0

\* the endpoints that were live are still live, in their slots
EndpointsStillPresent ==
    \A i \in LiveSlots(worker_endpoints) :
        /\ i \in LiveSlots(worker_endpoints')
        /\ worker_endpoints'[i].id = worker_endpoints[i].id

\* C24 as the specification states it: after a RestartIce for a live session
\* the worker holds one more endpoint task than before, and the old one is
\* still present.
C24_RestartIceSpawnsOnLiveSession ==
    [][\A owner \in Sessions, ext \in ExtIns :
          (/\ ext.ext = "RestartIce"
           /\ last'.op = "RestartIce"
           /\ Endpoints_has_task(worker_endpoints, owner)
           /\ WorkerExt(owner, ext))
          => /\ TaskGroup_tasks(worker_endpoints') = TaskGroup_tasks(worker_endpoints) + 1
             /\ EndpointsStillPresent]_vars

\* C24: a RestartIce for a live session is handed to the endpoint of that
\* session: the worker builds no endpoint, registers no ufrag, enqueues
\* nothing and holds the same endpoint tasks as before.  Only a RestartIce
\* for a session without a live endpoint spawns: with an offer the transport
\* accepts the worker then holds one more endpoint task, built with the
\* Webrtc variant, and answers with the ice-lite flag and the SDP of the new
\* transport.  In both cases every endpoint that was live is still present.
C24_RestartIceSpawnsOnlyForAbsentSession ==
    [][\A owner \in Sessions, ext \in ExtIns :
          (/\ ext.ext = "RestartIce"
           /\ last'.op = "RestartIce"
           /\ WorkerExt(owner, ext))
          => /\ EndpointsStillPresent
             /\ IF Endpoints_has_task(worker_endpoints, owner)
                THEN /\ TaskGroup_tasks(worker_endpoints') = TaskGroup_tasks(worker_endpoints)
                     /\ worker_spawned' = worker_spawned
                     /\ worker_built' = NoBuilt
                     /\ worker_shared_port' = worker_shared_port
                     /\ worker_queue' = worker_queue
                     /\ worker_delivered' =
                            Delivery(worker_endpoints[owner + 1].id, owner, EndpointInputExt(ext))
                ELSE /\ worker_delivered' = NoDelivery
                     /\ Len(worker_queue') = Len(worker_queue) + 1
                     /\ worker_built' = NoBuilt <=> ext.req # "offer"
                     /\ IF ext.req = "offer"
                        THEN /\ TaskGroup_tasks(worker_endpoints') = TaskGroup_tasks(worker_endpoints) + 1
                             /\ worker_spawned' = worker_spawned + 1
                             /\ worker_built'.id = worker_spawned'
                             /\ worker_built'.variant = "Webrtc"
                             /\ worker_endpoints'[worker_built'.index + 1].id = worker_spawned'
                             /\ worker_queue'[Len(worker_queue')].ext.res =
                                    ResRestartOk(WorkerIceLite, worker_spawned')
                        ELSE /\ worker_endpoints' = worker_endpoints
                             /\ worker_spawned' = worker_spawned]_vars

\* a RestartIce reached the endpoint of a live session
C24_Witness ==
    /\ last = Last("RestartIce", TRUE)
    /\ worker_delivered # NoDelivery
    /\ worker_delivered.input.ext.ext = "RestartIce"
    /\ TaskGroup_tasks(worker_endpoints) = 1
    /\ worker_queue = <<>>

\* the endpoint of this index has nothing left to give but OnResourceEmpty
RanEmpty(index) ==
    /\ worker_queue = <<>>
    /\ Endpoints_has_task(worker_endpoints, index)
    /\ Endpoint_pop_output(worker_endpoints[index + 1]).some
    /\ Endpoint_pop_output(worker_endpoints[index + 1]).out = EndpointOnResourceEmpty

\* the registrations of a demux index that do not name this task
OtherRegistrations(map, index) == {<<k, map[k]>> : k \in {x \in DOMAIN map : map[x] # index}}

Registrations(map) == {<<k, map[k]>> : k \in DOMAIN map}

\* every registration of the demux names a live endpoint, a ufrag the
\* endpoint whose transport has it
RegistrationsLive ==
    /\ \A u \in DOMAIN worker_shared_port.task_ufrags :
           /\ Endpoints_has_task(worker_endpoints, worker_shared_port.task_ufrags[u])
           /\ worker_endpoints[worker_shared_port.task_ufrags[u] + 1].id = u
    /\ \A a \in DOMAIN worker_shared_port.task_remotes :
           Endpoints_has_task(worker_endpoints, worker_shared_port.task_remotes[a])

\* an input the last operation delivered went to an endpoint that is live
DeliveredToLive ==
    worker_delivered # NoDelivery =>
        /\ Endpoints_has_task(worker_endpoints, worker_delivered.index)
        /\ worker_endpoints[worker_delivered.index + 1].id = worker_delivered.to

\* C25: when pop_output meets an endpoint whose output is OnResourceEmpty,
\* that step removes the task from the task group, drops every ufrag and
\* peer-address registration of the task, keeps the registrations and the
\* tasks of the other endpoints, and returns Continue; from then on no
\* registration names the removed endpoint, so no packet and no Ext input
\* is delivered to it.
C25_OnResourceEmptyRemovesEndpoint ==
    /\ [](RegistrationsLive /\ DeliveredToLive)
    /\ [][\A index \in Sessions :
             (RanEmpty(index) /\ WorkerPopOutput(index))
             => /\ worker_returned' = OutContinue
                /\ ~Endpoints_has_task(worker_endpoints', index)
                /\ Registrations(worker_shared_port'.task_ufrags) =
                       OtherRegistrations(worker_shared_port.task_ufrags, index)
                /\ Registrations(worker_shared_port'.task_remotes) =
                       OtherRegistrations(worker_shared_port.task_remotes, index)
                /\ LiveSlots(worker_endpoints') = LiveSlots(worker_endpoints) \ {index + 1}
                /\ \A i \in LiveSlots(worker_endpoints') : worker_endpoints'[i] = worker_endpoints[i]
                /\ worker_queue' = worker_queue]_vars

\* one of two endpoints was removed; the other keeps its ufrag and its peer
\* address
C25_Witness ==
    /\ last = Last("worker_pop", TRUE)
    /\ worker_returned = OutContinue
    /\ worker_spawned = 2
    /\ TaskGroup_tasks(worker_endpoints) = 1
    /\ Cardinality(DOMAIN worker_shared_port.task_ufrags) = 1
    /\ Cardinality(DOMAIN worker_shared_port.task_remotes) = 1

\* C26: is_empty() holds exactly when shutdown was requested, the outbound
\* queue is drained and no endpoint task is left; it is false while an
\* output is queued (an initial UdpListen, a pending EndpointNotFound
\* response), while an endpoint task is alive, and before shutdown.
C26_EmptyIffShutdownDrainedAndNoEndpoints ==
    /\ MediaWorkerWebrtc_is_empty(SelfWorker)
           <=> (worker_shutdown /\ Len(worker_queue) = 0 /\ LiveSlots(worker_endpoints) = {})
    /\ worker_queue # <<>> => ~MediaWorkerWebrtc_is_empty(SelfWorker)
    /\ (\E i \in 1..Len(worker_endpoints) : worker_endpoints[i].live)
           => ~MediaWorkerWebrtc_is_empty(SelfWorker)
    /\ ~worker_shutdown => ~MediaWorkerWebrtc_is_empty(SelfWorker)

\* after shutdown, with every endpoint gone, a refused request is still queued
C26_Witness ==
    /\ worker_shutdown
    /\ worker_spawned > 0
    /\ LiveSlots(worker_endpoints) = {}
    /\ Len(worker_queue) = 1
    /\ worker_queue[1].output = "Ext"
    /\ worker_queue[1].ext.res = ResErr(RpcEndpointNotFound)
    /\ ~MediaWorkerWebrtc_is_empty(SelfWorker)

C28_IndexesConsistent ==
    /\ \A c \in Channels, h \in Handles :
           (c \in DOMAIN tracks_source /\ h \in SeqToSet(tracks_source[c]))
               <=> (h \in DOMAIN tracks /\ tracks[h][3] = c)
    /\ \A c \in DOMAIN tracks_source : tracks_source[c] # <<>>

\* C29: neither expect("Should have track_source") nor assert!(removed) nor
\* the removal of the emptied channel entry of on_track_unpublish fails:
\* a handle registered in tracks with channel c is in tracks_source[c], in
\* every state that publish / unpublish / data / feedback / pop can reach.
C29_UnpublishAssertionsHold ==
    /\ ~panicked
    /\ \A h \in DOMAIN tracks :
           /\ tracks[h][3] \in DOMAIN tracks_source
           /\ h \in SeqToSet(tracks_source[tracks[h][3]])

\* a handle published twice, under two peers, was unpublished: the
\* assertions held although its first channel still lists it
C29_Witness ==
    /\ last = Last("unpublish", TRUE)
    /\ ~panicked
    /\ tracks = EmptyMap
    /\ tracks_source # EmptyMap

\* C30: on_track_unpublish of a handle that is not registered (never
\* published, or unpublished already) changes nothing: no PubStop, both
\* indexes and the queue as they were; so a second unpublish of a handle
\* adds nothing to the first.
C30_UnpublishUnregisteredNoOp ==
    /\ [](\A <<e, t>> \in Handles :
             on_track_unpublish(on_track_unpublish(Self, e, t), e, t) = on_track_unpublish(Self, e, t))
    /\ [][\A <<e, t>> \in Handles :
             (<<e, t>> \notin DOMAIN tracks /\ OnTrackUnpublish(e, t))
             => UNCHANGED <<tracks, tracks_source, queue, panicked>>]_vars

\* a handle that is not registered was unpublished while another handle is
\* registered
C30_Witness ==
    /\ last = Last("unpublish", FALSE)
    /\ tracks # EmptyMap
    /\ tracks_source # EmptyMap
    /\ ~panicked

\* C31: the registry and the task group of rooms agree: rooms_map has as
\* many entries as the task group has tasks, every hash maps to a live task
\* that is the room of that hash, two hashes never map to one task, and the
\* expect("Should have room with index") of pop_output has not failed.
C31_RegistryInSync ==
    /\ ~cluster_panicked
    /\ Cardinality(DOMAIN rooms_map) = TaskGroup_tasks(rooms)
    /\ \A h \in DOMAIN rooms_map :
           /\ rooms_map[h] + 1 \in LiveSlots(rooms)
           /\ rooms[rooms_map[h] + 1].room = h
    /\ \A g \in DOMAIN rooms_map, h \in DOMAIN rooms_map : g # h => rooms_map[g] # rooms_map[h]

\* the room of task 0 was reaped while the room of task 1 stays registered
C31_Witness ==
    /\ returned = OutContinue
    /\ Cardinality(DOMAIN rooms_map) = 1
    /\ Len(rooms) = 2
    /\ LiveSlots(rooms) = {2}

\* C32: after shutdown a control is still taken: for a hash without a room
\* a room is created and registered and the control is handed to it, so the
\* engine is not empty; for a registered hash the control is handed to the
\* room of that hash.  An engine that is shut down and not empty becomes
\* empty only by the pop_output that reaps a room.
C32_ControlAfterShutdown ==
    /\ [][\A e \in Endpoints, h \in RoomHashes : \A ctl \in Controls(e) :
             (shutdown /\ last'.op = "control" /\ OnEndpointControl(e, h, ctl))
             => IF h \notin DOMAIN rooms_map
                THEN /\ h \in DOMAIN rooms_map'
                     /\ rooms_map'[h] + 1 \in LiveSlots(rooms') \ LiveSlots(rooms)
                     /\ rooms'[rooms_map'[h] + 1] =
                            Room_on_event(Room_new(h), RoomInputEndpoint(e, ctl))
                     /\ ~MediaCluster_is_empty(SelfCluster)'
                     /\ shutdown'
                ELSE /\ rooms_map' = rooms_map
                     /\ rooms'[rooms_map[h] + 1] =
                            Room_on_event(rooms[rooms_map[h] + 1], RoomInputEndpoint(e, ctl))
                     /\ OtherRoomsKept(rooms_map[h] + 1)]_vars
    /\ [][(shutdown /\ ~MediaCluster_is_empty(SelfCluster) /\ MediaCluster_is_empty(SelfCluster)')
             => (last' = Last("cluster_pop", TRUE) /\ returned' = OutContinue)]_vars

\* an engine that was shut down and empty took a Join: it holds a room with
\* a peer again
C32_Witness ==
    /\ shutdown
    /\ last = Last("control", FALSE)
    /\ Cardinality(DOMAIN rooms_map) = 1
    /\ \E i \in LiveSlots(rooms) : rooms[i].peers # EmptyMap
    /\ ~MediaCluster_is_empty(SelfCluster)

RestartIceToAbsent(owner, ext) ==
    /\ ext.ext = "RestartIce"
    /\ last'.op = "RestartIce"
    /\ ~Endpoints_has_task(worker_endpoints, owner)
    /\ WorkerExt(owner, ext)

\* what such a RestartIce does: when the spawn succeeds, one endpoint task
\* more, in a slot that was not live, the others as they were, the ufrag of
\* the new transport registered in the demux under the new index, and one
\* response, Ok with the ice-lite flag and the SDP of the new transport,
\* addressed to the new index; when it fails, the endpoints and the demux as
\* they were and one response, Err(RpcEndpointNotFound), addressed to the
\* session of the request
RestartIceOutcome(owner, ext) ==
    /\ worker_built' # NoBuilt <=> ext.req = "offer"
    /\ IF worker_built' # NoBuilt
       THEN /\ TaskGroup_tasks(worker_endpoints') = TaskGroup_tasks(worker_endpoints) + 1
            /\ LiveSlots(worker_endpoints') = LiveSlots(worker_endpoints) \cup {worker_built'.index + 1}
            /\ worker_built'.index + 1 \notin LiveSlots(worker_endpoints)
            /\ \A i \in LiveSlots(worker_endpoints) : worker_endpoints'[i] = worker_endpoints[i]
            /\ worker_endpoints'[worker_built'.index + 1].id = worker_built'.id
            /\ worker_built'.id \notin DOMAIN worker_shared_port.task_ufrags
            /\ DOMAIN worker_shared_port'.task_ufrags =
                   DOMAIN worker_shared_port.task_ufrags \cup {worker_built'.id}
            /\ worker_shared_port'.task_ufrags[worker_built'.id] = worker_built'.index
            /\ \A u \in DOMAIN worker_shared_port.task_ufrags :
                   worker_shared_port'.task_ufrags[u] = worker_shared_port.task_ufrags[u]
            /\ worker_shared_port'.task_remotes = worker_shared_port.task_remotes
            /\ worker_queue' = <<GroupOutExt(worker_built'.index,
                                    ExtOut("RestartIce", ext.req_id, ext.variant,
                                           ResRestartOk(WorkerIceLite, worker_built'.id)))>>
       ELSE /\ worker_endpoints' = worker_endpoints
            /\ worker_shared_port' = worker_shared_port
            /\ worker_spawned' = worker_spawned
            /\ worker_queue' = <<NotFoundResponse(owner, ext)>>

\* C34 as the specification states it: the response of a successful spawn is
\* addressed to the new session index and not to the requested one.
C34_RestartIceAnswerNotToRequested ==
    [][\A owner \in Sessions, ext \in ExtIns :
          RestartIceToAbsent(owner, ext)
          => /\ RestartIceOutcome(owner, ext)
             /\ worker_built' # NoBuilt => worker_queue'[1].session # owner]_vars

\* C34: a RestartIce for a session without a live endpoint: if the spawn
\* succeeds, exactly one endpoint task is added, its ufrag is registered in
\* the demux, and the single response, Ok(ice_lite, sdp), is addressed to
\* the index the new task was given, which is the requested one when the
\* task group gives the new task that index; if the spawn fails, no task is
\* added and the single response, Err(RpcEndpointNotFound), is addressed to
\* the requested session.
C34_RestartIceToAbsentSession ==
    [][\A owner \in Sessions, ext \in ExtIns :
          RestartIceToAbsent(owner, ext) => RestartIceOutcome(owner, ext)]_vars

\* a RestartIce for a vacant session spawned a second endpoint and its
\* answer is queued for the index of the new endpoint
C34_Witness ==
    /\ last = Last("RestartIce", FALSE)
    /\ worker_built # NoBuilt
    /\ worker_built.variant = "Webrtc"
    /\ TaskGroup_tasks(worker_endpoints) = 2
    /\ Len(worker_queue) = 1
    /\ worker_queue[1].session = worker_built.index
    /\ worker_queue[1].ext.res = ResRestartOk(WorkerIceLite, worker_built.id)

Sending(call) == call.pc \in {"SendBegin", "SendTerminal"}

\* C35: connect calls running side by side over the bounded telemetry
\* channel lose no route event.  The channel never holds more than its
\* capacity; a call that is sending stays where it is while the channel is
\* full, and its event leaves it only by being appended to the channel; the
\* channel changes only by such an append or by the receiver taking its
\* head.  Every call enqueues two events, its RouteBegin and then, once the
\* RouteBegin is in the channel, one RouteSuccess or RouteError of the same
\* session.
C35_NoRouteEventDropped ==
    /\ [](Len(connector_agent_tx) <= TelemetryCapacity)
    /\ [][\A c \in CallIds :
            LET call == gw_calls[c]
                after == gw_calls'[c]
            IN Sending(call) =>
                  /\ Len(connector_agent_tx) >= TelemetryCapacity => after = call
                  /\ after # call =>
                        /\ connector_agent_tx' = Append(connector_agent_tx, call.pending)
                        /\ after.events = Append(call.events, call.pending)
                        /\ after.pending = NoEvent
                        /\ after.pc = IF call.pc = "SendBegin" THEN "Selecting" ELSE "Done"]_vars
    /\ [][connector_agent_tx' # connector_agent_tx =>
            \/ /\ connector_agent_tx # <<>>
               /\ connector_agent_tx' = Tail(connector_agent_tx)
               /\ gw_calls' = gw_calls
            \/ \E c \in CallIds :
                  /\ Sending(gw_calls[c])
                  /\ connector_agent_tx' = Append(connector_agent_tx, gw_calls[c].pending)
                  /\ \A d \in CallIds \ {c} : gw_calls'[d] = gw_calls[d]]_vars
    /\ [](\A c \in CallIds :
            LET call == gw_calls[c]
            IN IsConnect(call) =>
                  /\ call.pc = "SendBegin" => call.events = <<>> /\ IsBeginOf(call.pending, call)
                  /\ call.pc \in {"Selecting", "Routing"} =>
                        Len(call.events) = 1 /\ IsBeginOf(call.events[1], call)
                  /\ call.pc = "SendTerminal" =>
                        /\ Len(call.events) = 1 /\ IsBeginOf(call.events[1], call)
                        /\ IsTerminalOf(call.pending, call)
                  /\ call.pc = "Done" =>
                        /\ Len(call.events) = 2
                        /\ IsBeginOf(call.events[1], call)
                        /\ IsTerminalOf(call.events[2], call))

\* the channel is full of the first call's RouteBegin while the first call
\* waits with its terminal event and the second with its RouteBegin
C35_Witness ==
    /\ Len(connector_agent_tx) = TelemetryCapacity
    /\ IsBeginOf(connector_agent_tx[1], gw_calls[1])
    /\ gw_calls[1].pc = "SendTerminal"
    /\ gw_calls[1].pending.event = RouteError(NoNode, "PoolEmpty")
    /\ gw_calls[2].pc = "SendBegin"

====
